---- MODULE Spec2Model ----
(***************************************************************************)
(* Model of the fabryk-graph core: GraphData (types.rs) with its runtime   *)
(* mutation API, and GraphBuilder::build (builder.rs).                     *)
(*                                                                         *)
(* A petgraph NodeIndex i is modelled as position i + 1 of the node        *)
(* sequence, an EdgeIndex likewise.  f32 weights are modelled as tenths    *)
(* (1.0 is 10, 0.7 is 7).                                                  *)
(***************************************************************************)
EXTENDS Integers, Sequences, FiniteSets, TLC

\* ------------------------------------------------------------------------
\* Bounds and input alphabets
\* ------------------------------------------------------------------------

\* Largest number of edges add_edge is driven to in the runtime-API model.
MaxEdges == 2

\* Largest number of content files a build discovers.
MaxFiles == 2

\* Largest number of records in the manual-edges file.
MaxManual == 2

Ids == {"a", "b", "c"}

\* The (from, to) pairs that add_edge is also offered with a second
\* relationship.
RelabelledPairs == {<<"a", "b">>}

\* Node ids that content files and manual records use.
BuildIds == {"a", "b"}

\* The (from, to) pairs that content files and manual records declare.
BuildPairs == {<<f, t>> \in BuildIds \X BuildIds : f # t}

\* Relationship texts a manual record is offered with: an alias in mixed
\* case, and a variant's own name.
ManualTexts == {"Prereq", "relates_to"}

Titles == {"t1", "t2"}

\* The id that is also offered with a second title, so that a repeated
\* add_node can carry data that differs from the stored node.
RetitledIds == {"a"}

\* ------------------------------------------------------------------------
\* Relationship, Node, Edge
\* ------------------------------------------------------------------------

\* A Relationship value: a unit variant, or Custom carrying its name.
Rel(v) == [variant |-> v, custom |-> ""]

Custom(n) == [variant |-> "Custom", custom |-> n]

Prerequisite == Rel("Prerequisite")

LeadsTo == Rel("LeadsTo")

RelatesTo == Rel("RelatesTo")

Extends == Rel("Extends")

Introduces == Rel("Introduces")

Covers == Rel("Covers")

VariantOf == Rel("VariantOf")

ContrastsWith == Rel("ContrastsWith")

AnswersQuestion == Rel("AnswersQuestion")

\* The relationships edges are offered with.
Rels == {Prerequisite, RelatesTo}

\* Relationship::default_weight, in tenths
default_weight(rel) ==
    CASE rel.variant = "Prerequisite"    -> 10
      [] rel.variant = "LeadsTo"         -> 10
      [] rel.variant = "Extends"         -> 9
      [] rel.variant = "Introduces"      -> 8
      [] rel.variant = "Covers"          -> 8
      [] rel.variant = "VariantOf"       -> 9
      [] rel.variant = "ContrastsWith"   -> 7
      [] rel.variant = "AnswersQuestion" -> 6
      [] rel.variant = "RelatesTo"       -> 7
      [] OTHER                           -> 5

\* Relationship::name
name(rel) ==
    CASE rel.variant = "Prerequisite"    -> "prerequisite"
      [] rel.variant = "LeadsTo"         -> "leads_to"
      [] rel.variant = "RelatesTo"       -> "relates_to"
      [] rel.variant = "Extends"         -> "extends"
      [] rel.variant = "Introduces"      -> "introduces"
      [] rel.variant = "Covers"          -> "covers"
      [] rel.variant = "VariantOf"       -> "variant_of"
      [] rel.variant = "ContrastsWith"   -> "contrasts_with"
      [] rel.variant = "AnswersQuestion" -> "answers_question"
      [] OTHER                           -> rel.custom

Node(id, title) == [id |-> id, title |-> title, category |-> [some |-> FALSE]]

\* Node::with_category
with_category(node, category) ==
    [node EXCEPT !.category = [some |-> TRUE, val |-> category]]

\* Edge::new: default weight of the relationship, default origin.
Edge(from, to, rel) ==
    [from |-> from, to |-> to, relationship |-> rel,
     weight |-> default_weight(rel), origin |-> "Frontmatter"]

NodeInputs ==
    {Node(i, "t1") : i \in Ids} \cup {Node(i, "t2") : i \in RetitledIds}

\* The edges add_edge is offered: a Prerequisite edge for every pair of ids,
\* self-loops included, and a second relationship on the re-labelled pairs,
\* so that parallel edges with different payloads occur.
EdgeInputs ==
    {Edge(f, t, Prerequisite) : f \in Ids, t \in Ids} \cup
    {Edge(p[1], p[2], RelatesTo) : p \in RelabelledPairs}

\* ------------------------------------------------------------------------
\* HashMap and Vec helpers
\* ------------------------------------------------------------------------

EmptyMap == [k \in {} |-> 0]

MapInsert(m, k, v) == [x \in (DOMAIN m) \cup {k} |-> IF x = k THEN v ELSE m[x]]

MapRemove(m, k) == [x \in (DOMAIN m) \ {k} |-> m[x]]

\* Vec::swap_remove: the last element takes the place of element i.
SwapRemove(s, i) ==
    LET n == Len(s)
    IN  [k \in 1..(n - 1) |-> IF k = i THEN s[n] ELSE s[k]]

Max(S) == CHOOSE x \in S : \A y \in S : y <= x

\* ------------------------------------------------------------------------
\* petgraph DiGraph<Node, Edge>
\* ------------------------------------------------------------------------

\* DiGraph::new
DiGraphNew == [nodes |-> << >>, edges |-> << >>]

\* DiGraph::add_edge as called by GraphData::add_edge
DiGraphAddEdge(pg, a, b, w) ==
    [pg EXCEPT !.edges = Append(@, [source |-> a, target |-> b, weight |-> w])]

\* Every edge store petgraph can reach by removing, one swap_remove at a
\* time, the edges that touch node a.  petgraph takes the order from its
\* adjacency lists; the order is left open here.
RECURSIVE StripEdges(_, _)
StripEdges(es, a) ==
    LET inc == {i \in 1..Len(es) : es[i].source = a \/ es[i].target = a}
    IN  IF inc = {} THEN {es}
        ELSE UNION {StripEdges(SwapRemove(es, i), a) : i \in inc}

\* DiGraph::remove_node: drops the incident edges, then swap_removes the
\* node, so the last node moves into slot a and its edges are re-pointed.
\* Returns the set of graphs the call can produce.
DiGraphRemoveNode(pg, a) ==
    IF a \notin 1..Len(pg.nodes) THEN {pg}
    ELSE LET old == Len(pg.nodes)
             Fix(e) == [e EXCEPT !.source = IF @ = old THEN a ELSE @,
                                 !.target = IF @ = old THEN a ELSE @]
         IN  {[nodes |-> SwapRemove(pg.nodes, a),
               edges |-> [k \in 1..Len(es) |-> Fix(es[k])]] :
                  es \in StripEdges(pg.edges, a)}

\* ------------------------------------------------------------------------
\* GraphData
\* ------------------------------------------------------------------------

\* GraphData::new
GraphDataNew ==
    [graph |-> DiGraphNew, node_indices |-> EmptyMap, nodes |-> EmptyMap,
     edges |-> << >>]

node_count(g) == Len(g.graph.nodes)

edge_count(g) == Len(g.graph.edges)

contains_node(g, id) == id \in DOMAIN g.nodes

\* Option results are records with a some flag.
None == [some |-> FALSE]

Some(v) == [some |-> TRUE, val |-> v]

get_node(g, id) == IF id \in DOMAIN g.nodes THEN Some(g.nodes[id]) ELSE None

get_index(g, id) ==
    IF id \in DOMAIN g.node_indices THEN Some(g.node_indices[id]) ELSE None

\* add_node with the bug of refreshing the stored Node of an id that is
\* already present.
add_node_overwrite(g, node) ==
    IF node.id \in DOMAIN g.node_indices
    THEN [g |-> [g EXCEPT !.nodes = MapInsert(@, node.id, node)],
          idx |-> g.node_indices[node.id]]
    ELSE LET idx == Len(g.graph.nodes) + 1
         IN  [g |-> [g EXCEPT !.graph.nodes = Append(@, node),
                              !.node_indices = MapInsert(@, node.id, idx),
                              !.nodes = MapInsert(@, node.id, node)],
              idx |-> idx]

\* GraphData::add_node; returns the new GraphData and the returned index.
add_node(g, node) ==
    IF node.id \in DOMAIN g.node_indices
    THEN [g |-> g, idx |-> g.node_indices[node.id]]
    ELSE LET idx == Len(g.graph.nodes) + 1
         IN  [g |-> [g EXCEPT !.graph.nodes = Append(@, node),
                              !.node_indices = MapInsert(@, node.id, idx),
                              !.nodes = MapInsert(@, node.id, node)],
              idx |-> idx]

\* add_edge with the bug of pushing onto the flat list before the target
\* lookup has succeeded.
add_edge_early_push(g, edge) ==
    IF edge.from \notin DOMAIN g.node_indices
    THEN [g |-> g, ok |-> FALSE, missing |-> edge.from]
    ELSE IF edge.to \notin DOMAIN g.node_indices
    THEN [g |-> [g EXCEPT !.edges = Append(@, edge)],
          ok |-> FALSE, missing |-> edge.to]
    ELSE [g |-> [g EXCEPT
                   !.graph = DiGraphAddEdge(@, g.node_indices[edge.from],
                                            g.node_indices[edge.to], edge),
                   !.edges = Append(@, edge)],
          ok |-> TRUE, missing |-> ""]

\* add_edge with the bug of reporting success when the target is missing.
add_edge_swallow(g, edge) ==
    IF edge.from \notin DOMAIN g.node_indices
    THEN [g |-> g, ok |-> FALSE, missing |-> edge.from]
    ELSE IF edge.to \notin DOMAIN g.node_indices
    THEN [g |-> g, ok |-> TRUE, missing |-> ""]
    ELSE [g |-> [g EXCEPT
                   !.graph = DiGraphAddEdge(@, g.node_indices[edge.from],
                                            g.node_indices[edge.to], edge),
                   !.edges = Append(@, edge)],
          ok |-> TRUE, missing |-> ""]

\* GraphData::add_edge; ok = FALSE is Err(NotFound) naming the missing id.
add_edge(g, edge) ==
    IF edge.from \notin DOMAIN g.node_indices
    THEN [g |-> g, ok |-> FALSE, missing |-> edge.from]
    ELSE IF edge.to \notin DOMAIN g.node_indices
    THEN [g |-> g, ok |-> FALSE, missing |-> edge.to]
    ELSE [g |-> [g EXCEPT
                   !.graph = DiGraphAddEdge(@, g.node_indices[edge.from],
                                            g.node_indices[edge.to], edge),
                   !.edges = Append(@, edge)],
          ok |-> TRUE, missing |-> ""]

\* The rebuild left out: the indices issued before the removal are kept.
StaleIndices(old, ns) == old

\* node_indices.clear() and the loop that refills it from the graph's
\* slots after a removal: a later slot overwrites an earlier one with the
\* same id.  old is the table as the removal of the id left it.
RebuildIndices(old, ns) ==
    [i \in {ns[k].id : k \in 1..Len(ns)} |->
        Max({k \in 1..Len(ns) : ns[k].id = i})]

\* The retain test with the target side forgotten.
touches_from_only(e, id) == e.from = id

\* The edges edges.retain drops: those with from == id or to == id.
touches(e, id) == e.from = id \/ e.to = id

\* GraphData::remove_node; the set of (GraphData, returned Option) pairs
\* the call can produce.
remove_node(g, id) ==
    IF id \notin DOMAIN g.node_indices
    THEN {[g |-> g, node |-> None]}
    ELSE IF id \notin DOMAIN g.nodes
    THEN {[g |-> [g EXCEPT !.node_indices = MapRemove(@, id)], node |-> None]}
    ELSE LET idx == g.node_indices[id]
             Keep(e) == ~touches(e, id)
         IN  {[g |-> [graph |-> pg,
                      node_indices |->
                          RebuildIndices(MapRemove(g.node_indices, id),
                                         pg.nodes),
                      nodes |-> MapRemove(g.nodes, id),
                      edges |-> SelectSeq(g.edges, Keep)],
               node |-> Some(g.nodes[id])] :
                  pg \in DiGraphRemoveNode(g.graph, idx)}

\* ------------------------------------------------------------------------
\* petgraph: adjacency iteration and toposort
\* ------------------------------------------------------------------------

\* The edges of es at the positions in at, the most recently added first:
\* petgraph pushes a new edge at the head of its endpoints' adjacency lists.
RECURSIVE NewestFirst(_, _)
NewestFirst(es, at) ==
    IF at = {} THEN << >>
    ELSE <<es[Max(at)]>> \o NewestFirst(es, at \ {Max(at)})

\* DiGraph::edges_directed with the direction reversed.
edges_directed_flipped(pg, a, dirn) ==
    NewestFirst(pg.edges,
                {i \in 1..Len(pg.edges) :
                    IF dirn = "Outgoing" THEN pg.edges[i].target = a
                    ELSE pg.edges[i].source = a})

\* DiGraph::edges_directed: the edge references leaving (Outgoing) or
\* entering (Incoming) node a.
edges_directed(pg, a, dirn) ==
    NewestFirst(pg.edges,
                {i \in 1..Len(pg.edges) :
                    IF dirn = "Outgoing" THEN pg.edges[i].source = a
                    ELSE pg.edges[i].target = a})

\* The inner loop of toposort: a depth-first search driven by an explicit
\* stack.  A node met for the first time stays on the stack and its
\* undiscovered successors are pushed; met again, it is popped and
\* finished.  A self-loop is reported as a cycle at once.
RECURSIVE toposort_dfs(_, _)
toposort_dfs(pg, st) ==
    IF st.cycle \/ st.stack = << >> THEN st
    ELSE LET nx == st.stack[Len(st.stack)]
             out == edges_directed(pg, nx, "Outgoing")
             succs == [i \in 1..Len(out) |-> out[i].target]
             Fresh(n) == n \notin st.discovered \cup {nx}
         IN  IF nx \notin st.discovered
             THEN toposort_dfs(pg,
                    [st EXCEPT !.discovered = @ \cup {nx},
                               !.cycle = \E i \in 1..Len(succs) : succs[i] = nx,
                               !.stack = @ \o SelectSeq(succs, Fresh)])
             ELSE toposort_dfs(pg,
                    [st EXCEPT !.stack = SubSeq(@, 1, Len(@) - 1),
                               !.finished = @ \cup {nx},
                               !.finish_stack =
                                   IF nx \in st.finished THEN @
                                   ELSE Append(@, nx)])

\* The outer loop of toposort: the nodes in reverse index order, each
\* undiscovered one starting a search.
RECURSIVE toposort_roots(_, _, _)
toposort_roots(pg, st, i) ==
    IF st.cycle \/ i = 0 THEN st
    ELSE IF i \in st.discovered THEN toposort_roots(pg, st, i - 1)
    ELSE toposort_roots(pg, toposort_dfs(pg, [st EXCEPT !.stack = <<i>>]),
                        i - 1)

\* The nodes a search over the reversed graph discovers from the nodes in
\* from, the nodes in seen being discovered already.
RECURSIVE reversed_dfs(_, _, _)
reversed_dfs(pg, from, seen) ==
    LET more == {pg.edges[i].source :
                     i \in {j \in 1..Len(pg.edges) :
                                pg.edges[j].target \in from}} \ (seen \cup from)
    IN  IF more = {} THEN from ELSE reversed_dfs(pg, from \cup more, seen)

\* The second pass of toposort: in the order found, every node must be the
\* only node its search over the reversed graph discovers.
RECURSIVE toposort_check(_, _, _)
toposort_check(pg, order, seen) ==
    IF order = << >> THEN TRUE
    ELSE LET tree == reversed_dfs(pg, {Head(order)}, seen)
         IN  /\ tree = {Head(order)}
             /\ toposort_check(pg, Tail(order), seen \cup tree)

\* Vec::reverse
Reverse(s) == [i \in 1..Len(s) |-> s[Len(s) + 1 - i]]

\* petgraph::algo::toposort(&graph, None): Some(order) is Ok, None is
\* Err(Cycle).
toposort(pg) ==
    LET st == toposort_roots(pg, [stack |-> << >>, discovered |-> {},
                                  finished |-> {}, finish_stack |-> << >>,
                                  cycle |-> FALSE], Len(pg.nodes))
        order == Reverse(st.finish_stack)
    IN  IF ~st.cycle /\ toposort_check(pg, order, {})
        THEN Some(order) ELSE None

\* ------------------------------------------------------------------------
\* GraphBuilder: configuration, collaborators and the loop bodies of build
\* ------------------------------------------------------------------------

ErrorHandlings == {"FailFast", "Collect", "Skip"}

\* The BuildStats value build starts from.
BuildStatsNew ==
    [nodes_created |-> 0, edges_created |-> 0, files_processed |-> 0,
     files_skipped |-> 0, errors |-> << >>, manual_edges_loaded |-> 0,
     dangling_refs |-> << >>, deduped_edges |-> 0, from_cache |-> FALSE]

\* The BuildStats value build returns on a cache hit.
BuildStatsFromCache(g) ==
    [BuildStatsNew EXCEPT !.nodes_created = node_count(g),
                          !.edges_created = edge_count(g),
                          !.from_cache = TRUE]

\* What process_file can yield for one file: an error, or node data with
\* optional edge data.  Edge data is the list of edges the extractor will
\* materialize from it; a file declares at most one edge here.
FileOutcomes ==
    {[ok |-> FALSE, id |-> "", edge_data |-> None]} \cup
    {[ok |-> TRUE, id |-> i, edge_data |-> d] :
        i \in BuildIds,
        d \in {None} \cup
              {Some(<<Edge(p[1], p[2], r)>>) : p \in BuildPairs, r \in Rels}}

\* GraphExtractor::to_graph_node
to_graph_node(node_data) == Node(node_data.id, "t1")

\* GraphExtractor::to_graph_edges
to_graph_edges(from_id, edge_data) == edge_data

\* A ManualEdge record of the manual-edges file.
ManualEdge(from, to, text) ==
    [from |-> from, to |-> to, relationship |-> text, weight |-> None]

ManualInputs ==
    {ManualEdge(p[1], p[2], x) : p \in BuildPairs, x \in ManualTexts}

\* The parsed contents a manual-edges file can have.
ManualFiles ==
    UNION {[1..n -> ManualInputs] : n \in 0..MaxManual}

\* str::to_lowercase on the texts in use.
to_lowercase(x) ==
    CASE x = "Prereq"       -> "prereq"
      [] x = "MD"           -> "md"
      [] x = "Prerequisite" -> "prerequisite"
      [] x = "RelatesTo"    -> "relatesto"
      [] OTHER              -> x

\* parse_relationship
parse_relationship(x) ==
    LET l == to_lowercase(x)
    IN  CASE l \in {"prerequisite", "prereq"}            -> Prerequisite
          [] l \in {"leads_to", "leadsto"}               -> LeadsTo
          [] l \in {"relates_to", "relatesto", "related"} -> RelatesTo
          [] l = "extends"                               -> Extends
          [] l = "introduces"                            -> Introduces
          [] l = "covers"                                -> Covers
          [] l \in {"variant_of", "variantof"}           -> VariantOf
          [] l \in {"contrasts_with", "contrastswith"}   -> ContrastsWith
          [] l \in {"answers_question", "answersquestion",
                    "answers_questions"}                 -> AnswersQuestion
          [] OTHER                                       -> Custom(l)

\* The dangling_refs entry "from -[rel]-> to", with the "manual: " prefix
\* as a flag.
DanglingRef(manual, from, rel, to) ==
    [manual |-> manual, from |-> from, rel |-> rel, to |-> to]

\* A dedup key that ignores the direction of the edge.
edge_key_unordered(edge) ==
    IF edge.from = "a"
    THEN <<edge.from, edge.to, name(edge.relationship)>>
    ELSE <<edge.to, edge.from, name(edge.relationship)>>

\* The seen-set key of an extracted edge.
edge_key(edge) == <<edge.from, edge.to, name(edge.relationship)>>

\* The seen-set key of a manual record.
manual_key(manual) == <<manual.from, manual.to, manual.relationship>>

\* The dangling check with the source side forgotten.
is_dangling_to_only(g, from, to) == ~contains_node(g, to)

\* The dangling check of both loops: an endpoint is not a node.
is_dangling(g, from, to) == ~contains_node(g, from) \/ ~contains_node(g, to)

\* FailFast taken to cover Collect as well.
aborts_on_collect(eh) == eh \in {"FailFast", "Collect"}

\* The match on error_handling in phase 1: FailFast returns the error.
aborts(eh) == eh = "FailFast"

\* The locals of build that the edge loops work on.
BuildLocals(g, seen, st, loaded) ==
    [graph |-> g, seen_edges |-> seen, stats |-> st, loaded |-> loaded]

\* Body of the phase 2 loop for one edge.
process_edge(b, edge) ==
    IF is_dangling(b.graph, edge.from, edge.to)
    THEN [b EXCEPT !.stats.dangling_refs =
              Append(@, DanglingRef(FALSE, edge.from, name(edge.relationship),
                                    edge.to))]
    ELSE IF edge_key(edge) \in b.seen_edges
    THEN [b EXCEPT !.stats.deduped_edges = @ + 1]
    ELSE LET r == add_edge(b.graph, edge)
         IN  [b EXCEPT !.seen_edges = @ \cup {edge_key(edge)},
                       !.graph = r.g,
                       !.stats.edges_created = IF r.ok THEN @ + 1 ELSE @]

\* The phase 2 loop over the edges of one pending entry.
RECURSIVE process_edges(_, _)
process_edges(b, edges) ==
    IF edges = << >> THEN b
    ELSE process_edges(process_edge(b, Head(edges)), Tail(edges))

\* Body of the load_manual_edges loop for one record.
process_manual(b, manual) ==
    IF is_dangling(b.graph, manual.from, manual.to)
    THEN [b EXCEPT !.stats.dangling_refs =
              Append(@, DanglingRef(TRUE, manual.from, manual.relationship,
                                    manual.to))]
    ELSE IF manual_key(manual) \in b.seen_edges
    THEN [b EXCEPT !.stats.deduped_edges = @ + 1]
    ELSE LET relationship == parse_relationship(manual.relationship)
             weight == IF manual.weight.some THEN manual.weight.val
                       ELSE default_weight(relationship)
             edge == [from |-> manual.from, to |-> manual.to,
                      relationship |-> relationship, weight |-> weight,
                      origin |-> "Manual"]
             r == add_edge(b.graph, edge)
         IN  [b EXCEPT !.seen_edges = @ \cup {manual_key(manual)},
                       !.graph = r.g,
                       !.loaded = IF r.ok THEN @ + 1 ELSE @]

\* Phase 1 with the edges inserted as soon as their file is read, instead
\* of being queued for phase 2.
queue_file_eager(g, st, pending, outcome) ==
    LET node == to_graph_node(outcome)
        b == process_edges(
                 BuildLocals(add_node(g, node).g, {},
                             [st EXCEPT !.nodes_created = @ + 1], 0),
                 IF outcome.edge_data.some THEN outcome.edge_data.val
                 ELSE << >>)
    IN  [graph |-> b.graph, stats |-> b.stats, pending_edges |-> pending]

\* Phase 1, Ok arm: insert the node, count it, queue the edge data.
queue_file(g, st, pending, outcome) ==
    LET node == to_graph_node(outcome)
    IN  [graph |-> add_node(g, node).g,
         stats |-> [st EXCEPT !.nodes_created = @ + 1],
         pending_edges |->
             IF outcome.edge_data.some
             THEN Append(pending, [from_id |-> node.id,
                                   edge_data |-> outcome.edge_data.val])
             ELSE pending]

\* A file under the content directory.  Files are named by their rank in
\* path order; ext is the extension as written, mtime the modification time
\* in seconds.
File(rank, ext, mtime) == [rank |-> rank, ext |-> ext, mtime |-> mtime]

\* A directory of n markdown files that were never touched.
PlainDir(n) == {File(i, "md", 0) : i \in 1..n}

\* file_info.sort_by(path): the files of a set in path order.
RECURSIVE SortByPath(_)
SortByPath(fs) ==
    IF fs = {} THEN << >>
    ELSE LET f == CHOOSE x \in fs : \A y \in fs : x.rank <= y.rank
         IN  <<f>> \o SortByPath(fs \ {f})

\* compute_content_hash: the digest of the sorted (path, mtime) list of the
\* files whose extension is exactly "md".  The digest is taken to be
\* collision-free, so it is the list itself.
compute_content_hash(d) ==
    LET file_info == SortByPath({f \in d : f.ext = "md"})
    IN  [i \in 1..Len(file_info) |-> <<file_info[i].rank, file_info[i].mtime>>]

\* discover_files: find_all_files with FindOptions::markdown(), a sorted
\* walk that matches the extension without regard to case.
discover_files(d) == SortByPath({f \in d : to_lowercase(f.ext) = "md"})

\* persistence::is_cache_fresh
is_cache_fresh(c, content_hash) == c.some /\ c.val.content_hash = content_hash

\* ------------------------------------------------------------------------
\* State
\* ------------------------------------------------------------------------

VARIABLES
    graph,          \* the GraphData value
    call,           \* runtime API: the last call made and what it returned
    cfg,            \* builder: error_handling, manual_edges_path, cache_path,
                    \*          skip_cache, content_path
    pc,             \* builder: where build() stands
    files,          \* builder: number of discovered files, in sorted order
    pos,            \* builder: cursor of the loop build() is in
    read,           \* builder: what process_file yielded for each file so far
    pending_edges,  \* builder: queued (node id, edge data) pairs
    seen_edges,     \* builder: the dedup set
    stats,          \* builder: BuildStats
    manual_edges,   \* builder: the parsed manual-edges file
    loaded,         \* builder: load_manual_edges' counter
    cache,          \* the cache file
    result,         \* builder: what build() returned
    dir,            \* the content directory: the files under it
    query,          \* the last query made on the graph and what it returned
    prev,           \* the last build() that returned: its outcome, whether it
                    \* had a cache path, and the directory it saw
    lock,           \* GraphTools: the RwLock around the graph
    tasks,          \* GraphTools: the tool calls and update_graph calls
    installed       \* GraphTools: every graph the lock has held, in order

gvars == <<graph, call>>

bvars == <<cfg, pc, files, pos, read, pending_edges, seen_edges, stats,
           manual_edges, loaded, cache, result>>

\* The variables of GraphTools.
tvars == <<lock, tasks, installed>>

\* What the runtime API and a single build() leave alone.
xvars == <<dir, prev, query, tvars>>

\* The variables of the queries.
qvars == <<query, tvars>>

\* No GraphTools has been made.
NoTools == lock = None /\ tasks = EmptyMap /\ installed = << >>

vars == <<graph, call, cfg, pc, files, pos, read, pending_edges, seen_edges,
          stats, manual_edges, loaded, cache, result, dir, prev, query, lock,
          tasks, installed>>

NoNode == Node("", "")

NoEdge == Edge("", "", Rel(""))

Call(op, node, edge, ok, idx, ret) ==
    [op |-> op, node |-> node, edge |-> edge, ok |-> ok, idx |-> idx,
     ret |-> ret]

NoCall == Call("new", NoNode, NoEdge, TRUE, 0, NoNode)

Config(content_path, eh, manual, cache_path) ==
    [content_path |-> content_path, error_handling |-> eh, manual_edges_path |-> manual,
     cache_path |-> cache_path, skip_cache |-> FALSE]

\* GraphBuilder::skip_cache
skip_cache(c) == [c EXCEPT !.skip_cache = TRUE]

\* No query has been made on the graph as it is.
NoQuery == [op |-> "none"]

\* No build() has returned yet.
NoBuild == [status |-> "none", cache_path |-> FALSE, dir |-> {}]

Running == [status |-> "running", file |-> 0]

\* The builder's variables before build() is called.
BuilderNew(c) ==
    /\ cfg = c
    /\ pc = "start"
    /\ files = 0
    /\ pos = 0
    /\ read = << >>
    /\ pending_edges = << >>
    /\ seen_edges = {}
    /\ stats = BuildStatsNew
    /\ manual_edges = << >>
    /\ loaded = 0
    /\ cache = None
    /\ result = Running
    /\ prev = NoBuild

\* ------------------------------------------------------------------------
\* Runtime mutation API: actions
\* ------------------------------------------------------------------------

Init ==
    /\ graph = GraphDataNew
    /\ call = NoCall
    /\ query = NoQuery
    /\ NoTools
    /\ dir = {}
    /\ BuilderNew(Config(FALSE, "FailFast", FALSE, FALSE))

AddNode ==
    /\ \E node \in NodeInputs :
        LET r == add_node(graph, node)
        IN  /\ graph' = r.g
            /\ call' = Call("add_node", node, NoEdge, TRUE, r.idx, NoNode)
    /\ UNCHANGED xvars
    /\ UNCHANGED bvars

AddEdge ==
    /\ \E edge \in EdgeInputs :
        LET r == add_edge(graph, edge)
        IN  /\ (r.ok => Len(graph.edges) < MaxEdges)
            /\ graph' = r.g
            /\ call' = Call("add_edge", Node(r.missing, ""), edge, r.ok, 0,
                            NoNode)
    /\ UNCHANGED xvars
    /\ UNCHANGED bvars

RemoveNode ==
    /\ \E id \in Ids :
        \E r \in remove_node(graph, id) :
            /\ graph' = r.g
            /\ call' = Call("remove_node", Node(id, ""), NoEdge, r.node.some,
                            0, IF r.node.some THEN r.node.val ELSE NoNode)
    /\ UNCHANGED xvars
    /\ UNCHANGED bvars

Next == AddNode \/ AddEdge \/ RemoveNode

Spec == Init /\ [][Next]_vars

\* ------------------------------------------------------------------------
\* GraphBuilder::build: actions
\* ------------------------------------------------------------------------

InitBuild ==
    /\ graph = GraphDataNew
    /\ call = NoCall
    /\ query = NoQuery
    /\ NoTools
    /\ \E n \in 0..MaxFiles : dir = PlainDir(n)
    /\ \E content_path \in BOOLEAN, eh \in ErrorHandlings,
          manual \in BOOLEAN, cache_path \in BOOLEAN :
           BuilderNew(Config(content_path, eh, manual, cache_path))

\* The phase that follows phase 1 or phase 2.
AfterNodes(pending) == IF Len(pending) > 0 THEN "phase2" ELSE "phase3"

\* build() up to the start of phase 1: the configuration check, the cache
\* check and file discovery.
StartBuild ==
    /\ pc = "start"
    /\ IF ~cfg.content_path
       THEN /\ pc' = "failed"
            /\ result' = [status |-> "Err", file |-> 0]
            /\ UNCHANGED <<graph, files, pos, stats>>
       ELSE LET n == Len(discover_files(dir)) IN
            IF /\ cfg.cache_path /\ ~cfg.skip_cache
               /\ is_cache_fresh(cache, compute_content_hash(dir))
            THEN /\ graph' = cache.val.graph
                 /\ stats' = BuildStatsFromCache(cache.val.graph)
                 /\ pc' = "done"
                 /\ result' = [status |-> "Ok", file |-> 0]
                 /\ UNCHANGED <<files, pos>>
            ELSE /\ files' = n
                 /\ stats' = BuildStatsNew
                 /\ graph' = GraphDataNew
                 /\ pos' = 1
                 /\ pc' = IF n > 0 THEN "phase1" ELSE "phase3"
                 /\ UNCHANGED result
    /\ UNCHANGED xvars
    /\ UNCHANGED <<call, cfg, read, pending_edges, seen_edges, manual_edges,
                   loaded, cache>>

\* Phase 1, one file: process_file succeeds.
Phase1Ok ==
    /\ pc = "phase1"
    /\ \E outcome \in {o \in FileOutcomes : o.ok} :
        LET q == queue_file(graph, stats, pending_edges, outcome)
        IN  /\ graph' = q.graph
            /\ pending_edges' = q.pending_edges
            /\ stats' = [q.stats EXCEPT !.files_processed = @ + 1]
            /\ read' = Append(read, outcome.id)
            /\ pos' = IF pos = files THEN 1 ELSE pos + 1
            /\ pc' = IF pos = files THEN AfterNodes(q.pending_edges)
                     ELSE "phase1"
    /\ UNCHANGED xvars
    /\ UNCHANGED <<call, cfg, files, seen_edges, manual_edges, loaded, cache,
                   result>>

\* Phase 1, one file: process_file fails under Collect or Skip.
Phase1Skip ==
    /\ pc = "phase1"
    /\ ~aborts(cfg.error_handling)
    /\ stats' = [stats EXCEPT !.files_skipped = @ + 1,
                              !.errors = Append(@, [file |-> pos]),
                              !.files_processed = @ + 1]
    /\ read' = Append(read, "")
    /\ pos' = IF pos = files THEN 1 ELSE pos + 1
    /\ pc' = IF pos = files THEN AfterNodes(pending_edges) ELSE "phase1"
    /\ UNCHANGED xvars
    /\ UNCHANGED <<graph, call, cfg, files, pending_edges, seen_edges,
                   manual_edges, loaded, cache, result>>

\* Phase 1, one file: process_file fails under FailFast and build returns
\* the error.
Phase1Abort ==
    /\ pc = "phase1"
    /\ aborts(cfg.error_handling)
    /\ read' = Append(read, "")
    /\ pc' = "failed"
    /\ result' = [status |-> "Err", file |-> pos]
    /\ UNCHANGED xvars
    /\ UNCHANGED <<graph, call, cfg, files, pos, pending_edges, seen_edges,
                   stats, manual_edges, loaded, cache>>

\* Phase 2, one pending entry: materialize its edges and run each through
\* the dangling check, the dedup check and add_edge.
Phase2Entry ==
    /\ pc = "phase2"
    /\ LET entry == pending_edges[pos]
           b == process_edges(BuildLocals(graph, seen_edges, stats, loaded),
                              to_graph_edges(entry.from_id, entry.edge_data))
       IN  /\ graph' = b.graph
           /\ seen_edges' = b.seen_edges
           /\ stats' = b.stats
    /\ pos' = IF pos = Len(pending_edges) THEN 1 ELSE pos + 1
    /\ pc' = IF pos = Len(pending_edges) THEN "phase3" ELSE "phase2"
    /\ UNCHANGED xvars
    /\ UNCHANGED <<call, cfg, files, read, pending_edges, manual_edges,
                   loaded, cache, result>>

\* Phase 3 entry: no manual-edges path, or the file does not exist (zero
\* edges loaded), or the file is read and parsed.
LoadManual ==
    /\ pc = "phase3"
    /\ IF ~cfg.manual_edges_path
       THEN /\ pc' = "save"
            /\ UNCHANGED <<manual_edges, stats>>
       ELSE \/ /\ pc' = "save"
               /\ stats' = [stats EXCEPT !.manual_edges_loaded = 0]
               /\ UNCHANGED manual_edges
            \/ \E m \in ManualFiles :
               /\ manual_edges' = m
               /\ IF Len(m) = 0
                  THEN /\ pc' = "save"
                       /\ stats' = [stats EXCEPT !.manual_edges_loaded = 0]
                  ELSE /\ pc' = "manual"
                       /\ UNCHANGED stats
    /\ loaded' = 0
    /\ pos' = 1
    /\ UNCHANGED xvars
    /\ UNCHANGED <<graph, call, cfg, files, read, pending_edges, seen_edges,
                   cache, result>>

\* load_manual_edges, one record; after the last one the count of loaded
\* edges is returned and stored in the stats.
ManualRecord ==
    /\ pc = "manual"
    /\ LET b == process_manual(BuildLocals(graph, seen_edges, stats, loaded),
                               manual_edges[pos])
           last == pos = Len(manual_edges)
       IN  /\ graph' = b.graph
           /\ seen_edges' = b.seen_edges
           /\ loaded' = b.loaded
           /\ stats' = IF last
                       THEN [b.stats EXCEPT !.manual_edges_loaded = b.loaded]
                       ELSE b.stats
           /\ pos' = IF last THEN 1 ELSE pos + 1
           /\ pc' = IF last THEN "save" ELSE "manual"
    /\ UNCHANGED xvars
    /\ UNCHANGED <<call, cfg, files, read, pending_edges, manual_edges, cache,
                   result>>

\* The end of build(): save the cache when a cache path is configured and
\* return the graph and the stats.
FinishBuild ==
    /\ pc = "save"
    /\ cache' = IF cfg.cache_path
                THEN Some([graph |-> graph,
                           content_hash |-> compute_content_hash(dir),
                           source_file_count |-> stats.files_processed])
                ELSE cache
    /\ pc' = "done"
    /\ result' = [status |-> "Ok", file |-> 0]
    /\ UNCHANGED xvars
    /\ UNCHANGED <<graph, call, cfg, files, pos, read, pending_edges,
                   seen_edges, stats, manual_edges, loaded>>

NextBuild ==
    \/ StartBuild
    \/ Phase1Ok
    \/ Phase1Skip
    \/ Phase1Abort
    \/ Phase2Entry
    \/ LoadManual
    \/ ManualRecord
    \/ FinishBuild

SpecBuild == InitBuild /\ [][NextBuild]_vars

\* ------------------------------------------------------------------------
\* GraphBuilder::build as one call, repeated over a changing content
\* directory and one cache file
\* ------------------------------------------------------------------------

\* Largest number of files under the content directory.
MaxDirFiles == 2

\* Latest modification time a file can have.
MaxMtime == 1

FileExts == {"md", "MD", "txt"}

FileIds == <<"a", "b", "c">>

\* process_file with the extractor of the cache tests: one node per file,
\* named after the file, and no edge data.
process_file(f) == [ok |-> TRUE, id |-> FileIds[f.rank], edge_data |-> None]

\* Phase 1 over the discovered files (all of them extract).
RECURSIVE phase1(_, _)
phase1(q, fs) ==
    IF fs = << >> THEN q
    ELSE LET r == queue_file(q.graph, q.stats, q.pending_edges,
                             process_file(Head(fs)))
         IN  phase1([r EXCEPT !.stats.files_processed = @ + 1], Tail(fs))

\* Phase 2 over the pending entries.
RECURSIVE phase2(_, _)
phase2(b, pending) ==
    IF pending = << >> THEN b
    ELSE phase2(process_edges(b, to_graph_edges(Head(pending).from_id,
                                                Head(pending).edge_data)),
                Tail(pending))

\* load_manual_edges over the records of the manual-edges file.
RECURSIVE load_manual_edges(_, _)
load_manual_edges(b, records) ==
    IF records = << >> THEN b
    ELSE load_manual_edges(process_manual(b, Head(records)), Tail(records))

\* Phase 3 of a builder configured as c over the manual-edges file m.
phase3(c, b, m) ==
    IF ~c.manual_edges_path THEN b
    ELSE LET l == load_manual_edges([b EXCEPT !.loaded = 0], m)
         IN  [l EXCEPT !.stats.manual_edges_loaded = l.loaded]

\* build() of a builder configured as c, over directory d, manual-edges
\* file m and cache file ch: what it returns and the cache file it leaves.
build(c, d, m, ch) ==
    IF ~c.content_path
    THEN [status |-> "Err", graph |-> GraphDataNew, stats |-> BuildStatsNew,
          cache |-> ch]
    ELSE IF /\ c.cache_path /\ ~c.skip_cache
            /\ is_cache_fresh(ch, compute_content_hash(d))
    THEN [status |-> "Ok", graph |-> ch.val.graph,
          stats |-> BuildStatsFromCache(ch.val.graph), cache |-> ch]
    ELSE LET q == phase1([graph |-> GraphDataNew, stats |-> BuildStatsNew,
                          pending_edges |-> << >>], discover_files(d))
             b == phase3(c, phase2(BuildLocals(q.graph, {}, q.stats, 0),
                                   q.pending_edges), m)
         IN  [status |-> "Ok", graph |-> b.graph, stats |-> b.stats,
              cache |-> IF c.cache_path
                        THEN Some([graph |-> b.graph,
                                   content_hash |-> compute_content_hash(d),
                                   source_file_count |->
                                       b.stats.files_processed])
                        ELSE ch]

\* The builder configurations of the cache specification.
CacheConfigs ==
    LET plain == {Config(cp, "FailFast", FALSE, ca) :
                      cp \in BOOLEAN, ca \in BOOLEAN}
    IN  plain \cup {skip_cache(c) : c \in plain}
              \cup {Config(TRUE, "FailFast", TRUE, TRUE)}

\* The contents the manual-edges file of the cache specification can have.
CacheManualFiles == {<< >>, <<ManualEdge("a", "b", "Prereq")>>}

InitCache ==
    /\ graph = GraphDataNew
    /\ call = NoCall
    /\ query = NoQuery
    /\ NoTools
    /\ dir = {}
    /\ \E c \in CacheConfigs : BuilderNew(c)

\* A new GraphBuilder is configured.
NewBuilder ==
    /\ pc \in {"done", "failed"}
    /\ \E c \in CacheConfigs : cfg' = c
    /\ pc' = "start"
    /\ result' = Running
    /\ UNCHANGED qvars
    /\ UNCHANGED <<graph, call, files, pos, read, pending_edges, seen_edges,
                   stats, manual_edges, loaded, cache, dir, prev>>

\* build() runs from call to return.
Build ==
    /\ pc = "start"
    /\ LET r == build(cfg, dir, manual_edges, cache)
       IN  /\ result' = [status |-> r.status, file |-> 0]
           /\ pc' = IF r.status = "Ok" THEN "done" ELSE "failed"
           /\ graph' = r.graph
           /\ stats' = r.stats
           /\ cache' = r.cache
           /\ prev' = [status |-> r.status, cache_path |-> cfg.cache_path,
                       dir |-> dir]
    /\ UNCHANGED qvars
    /\ UNCHANGED <<call, cfg, files, pos, read, pending_edges, seen_edges,
                   manual_edges, loaded, dir>>

\* A file is added to the content directory.
AddFile ==
    /\ Cardinality(dir) < MaxDirFiles
    /\ \E ext \in FileExts, mtime \in 0..MaxMtime :
           dir' = dir \cup {File(Cardinality(dir) + 1, ext, mtime)}
    /\ UNCHANGED qvars
    /\ UNCHANGED <<graph, call, cfg, pc, files, pos, read, pending_edges,
                   seen_edges, stats, manual_edges, loaded, cache, result,
                   prev>>

\* A file of the content directory is rewritten at a later time.
TouchFile ==
    /\ \E f \in dir :
        /\ f.mtime < MaxMtime
        /\ dir' = (dir \ {f}) \cup {File(f.rank, f.ext, f.mtime + 1)}
    /\ UNCHANGED qvars
    /\ UNCHANGED <<graph, call, cfg, pc, files, pos, read, pending_edges,
                   seen_edges, stats, manual_edges, loaded, cache, result,
                   prev>>

\* The manual-edges file is rewritten with other contents.
EditManual ==
    /\ \E m \in CacheManualFiles \ {manual_edges} : manual_edges' = m
    /\ UNCHANGED qvars
    /\ UNCHANGED <<graph, call, cfg, pc, files, pos, read, pending_edges,
                   seen_edges, stats, loaded, cache, result, dir, prev>>

NextCache == NewBuilder \/ Build \/ AddFile \/ TouchFile \/ EditManual

SpecCache == InitCache /\ [][NextCache]_vars

\* ------------------------------------------------------------------------
\* Query algorithms
\* ------------------------------------------------------------------------

\* Largest number of edges of a queried graph.
MaxQEdges == 2

\* Err(NotFound) of a query.
NotFound == [ok |-> FALSE]

\* Every order a HashSet or HashMap can hand out the elements of S in.
RECURSIVE Orders(_)
Orders(S) ==
    IF S = {} THEN {<< >>}
    ELSE UNION {{<<x>> \o o : o \in Orders(S \ {x})} : x \in S}

\* The backward search stopping at the direct prerequisites: the sources
\* found are not queued.
collect_prerequisites_direct(pg, from, found) ==
    LET inc(a) == edges_directed(pg, a, "Incoming")
    IN  UNION {{inc(a)[i].source :
                   i \in {j \in 1..Len(inc(a)) :
                       inc(a)[j].weight.relationship = Prerequisite}} :
               a \in from}

\* The backward search of prerequisites_sorted: the indices inserted into
\* prereq_indices, starting from the nodes in from.
RECURSIVE collect_prerequisites(_, _, _)
collect_prerequisites(pg, from, found) ==
    LET Sources(a) ==
            LET inc == edges_directed(pg, a, "Incoming")
            IN  {inc[i].source : i \in {j \in 1..Len(inc) :
                    inc[j].weight.relationship = Prerequisite}}
        more == UNION {Sources(a) : a \in from} \ found
    IN  IF more = {} THEN found
        ELSE collect_prerequisites(pg, more, found \cup more)

\* The match on the toposort result with the fallback arm reporting no
\* cycle.
order_prerequisites_unflagged(prereq_indices, sorted) ==
    LET IsPrereq(idx) == idx \in prereq_indices
    IN  IF sorted.some
        THEN {[ordered |-> SelectSeq(sorted.val, IsPrereq),
               has_cycles |-> FALSE]}
        ELSE {[ordered |-> o, has_cycles |-> FALSE] :
                  o \in Orders(prereq_indices)}

\* The match on the toposort result: the topological order filtered to the
\* prerequisites, or on Err the prerequisites in the iteration order of the
\* HashSet, flagged.
order_prerequisites(prereq_indices, sorted) ==
    LET IsPrereq(idx) == idx \in prereq_indices
    IN  IF sorted.some
        THEN {[ordered |-> SelectSeq(sorted.val, IsPrereq),
               has_cycles |-> FALSE]}
        ELSE {[ordered |-> o, has_cycles |-> TRUE] :
                  o \in Orders(prereq_indices)}

\* prerequisites_sorted: the results the call can return.
prerequisites_sorted(g, target_id) ==
    IF ~get_node(g, target_id).some THEN {NotFound}
    ELSE LET pg == g.graph
             target_idx == get_index(g, target_id).val
             prereq_indices == collect_prerequisites(pg, {target_idx}, {})
             Result(r) ==
                 [ok |-> TRUE,
                  ordered |-> [i \in 1..Len(r.ordered) |->
                                  pg.nodes[r.ordered[i]]],
                  target |-> get_node(g, target_id).val,
                  has_cycles |-> r.has_cycles]
         IN  IF prereq_indices = {}
             THEN {Result([ordered |-> << >>, has_cycles |-> FALSE])}
             ELSE {Result(r) :
                      r \in order_prerequisites(prereq_indices, toposort(pg))}

\* Min over a non-empty set of numbers.
Min(S) == CHOOSE x \in S : \A y \in S : x <= y

\* The cost closure of shortest_path, (1.0 / weight.max(0.01)) as u32, on a
\* weight in tenths: the quotient is truncated to an integer.
edge_cost(weight) == IF weight >= 1 THEN 10 \div weight ELSE 100

\* The simple paths that extend path to the node to.
RECURSIVE extend_path(_, _, _)
extend_path(pg, path, to) ==
    LET last == path[Len(path)]
        out == edges_directed(pg, last, "Outgoing")
        next == {out[i].target : i \in 1..Len(out)} \
                    {path[i] : i \in 1..Len(path)}
    IN  IF last = to THEN {path}
        ELSE UNION {extend_path(pg, Append(path, n), to) : n \in next}

\* The score astar gives a path: per step the cheapest edge between the
\* two nodes.
RECURSIVE path_score(_, _)
path_score(pg, path) ==
    IF Len(path) < 2 THEN 0
    ELSE Min({edge_cost(pg.edges[i].weight.weight) :
                 i \in {j \in 1..Len(pg.edges) :
                           /\ pg.edges[j].source = path[1]
                           /\ pg.edges[j].target = path[2]}})
         + path_score(pg, Tail(path))

\* petgraph::algo::astar with a zero estimate: None, or the score and the
\* node indices of a path of least score; which one among several of the
\* same score is left open.
astar(pg, from, to) ==
    LET paths == extend_path(pg, <<from>>, to)
        best == Min({path_score(pg, q) : q \in paths})
    IN  IF paths = {} THEN {None}
        ELSE {Some([cost |-> best, path |-> q]) :
                 q \in {x \in paths : path_score(pg, x) = best}}

\* DiGraph::find_edge: the first edge from a to b on a's adjacency list.
find_edge(pg, a, b) ==
    LET IsTo(e) == e.target = b
        hits == SelectSeq(edges_directed(pg, a, "Outgoing"), IsTo)
    IN  IF hits = << >> THEN None ELSE Some(hits[1])

\* Sum of the weights of a list of edges.
RECURSIVE total_weight(_)
total_weight(es) ==
    IF es = << >> THEN 0 ELSE Head(es).weight + total_weight(Tail(es))

\* PathResult::not_found
not_found ==
    [ok |-> TRUE, path |-> << >>, edges |-> << >>, total_weight |-> 0,
     found |-> FALSE]

\* The match on the astar result: the nodes of the path, one edge per step
\* as find_edge returns it, and the sum of their weights.
path_result(pg, r) ==
    IF ~r.some THEN not_found
    ELSE LET idxs == r.val.path
             Step(i) == find_edge(pg, idxs[i], idxs[i + 1])
             HasEdge(i) == Step(i).some
             steps == SelectSeq([i \in 1..(Len(idxs) - 1) |-> i], HasEdge)
             edges == [k \in 1..Len(steps) |-> Step(steps[k]).val.weight]
         IN  [ok |-> TRUE,
              path |-> [i \in 1..Len(idxs) |-> pg.nodes[idxs[i]]],
              edges |-> edges,
              total_weight |-> total_weight(edges),
              found |-> TRUE]

\* shortest_path with a missing endpoint reported as an error.
shortest_path_strict(g, from_id, to_id) ==
    IF ~get_index(g, from_id).some \/ ~get_index(g, to_id).some
    THEN {NotFound}
    ELSE IF get_index(g, from_id).val = get_index(g, to_id).val
    THEN {[ok |-> TRUE,
           path |-> <<g.graph.nodes[get_index(g, from_id).val]>>,
           edges |-> << >>, total_weight |-> 0, found |-> TRUE]}
    ELSE {path_result(g.graph, r) :
             r \in astar(g.graph, get_index(g, from_id).val,
                         get_index(g, to_id).val)}

\* shortest_path: the results the call can return.
shortest_path(g, from_id, to_id) ==
    IF ~get_index(g, from_id).some \/ ~get_index(g, to_id).some
    THEN {not_found}
    ELSE IF get_index(g, from_id).val = get_index(g, to_id).val
    THEN {[ok |-> TRUE,
           path |-> <<g.graph.nodes[get_index(g, from_id).val]>>,
           edges |-> << >>, total_weight |-> 0, found |-> TRUE]}
    ELSE {path_result(g.graph, r) :
             r \in astar(g.graph, get_index(g, from_id).val,
                         get_index(g, to_id).val)}

\* Maximum allowed BFS depth.
MAX_BFS_DEPTH == 10

\* The locals of neighborhood before the loop.
bfs_start(center, center_idx, radius) ==
    [radius |-> IF radius < MAX_BFS_DEPTH THEN radius ELSE MAX_BFS_DEPTH,
     visited |-> {center_idx},
     distances |-> MapInsert(EmptyMap, center.id, 0),
     queue |-> <<[idx |-> center_idx, dist |-> 0]>>,
     result_nodes |-> << >>,
     result_edges |-> << >>]

\* One of the two for loops of neighborhood over the edge references refs
\* of the node popped at distance dist; a neighbor seen for the first time
\* is recorded with the edge that led to it and queued.
RECURSIVE explore(_, _, _, _, _, _)
explore(pg, st, refs, dirn, dist, filter) ==
    IF refs = << >> THEN st
    ELSE LET edge_ref == Head(refs)
             neighbor_idx == IF dirn = "Outgoing" THEN edge_ref.target
                             ELSE edge_ref.source
             neighbor == pg.nodes[neighbor_idx]
             skip == \/ filter.some /\
                         edge_ref.weight.relationship \notin filter.val
                     \/ neighbor_idx \in st.visited
             next == [st EXCEPT
                        !.visited = @ \cup {neighbor_idx},
                        !.distances = MapInsert(@, neighbor.id, dist + 1),
                        !.result_nodes = Append(@, neighbor),
                        !.result_edges = Append(@, edge_ref.weight),
                        !.queue = Append(@, [idx |-> neighbor_idx,
                                             dist |-> dist + 1])]
         IN  explore(pg, IF skip THEN st ELSE next, Tail(refs), dirn, dist,
                     filter)

\* One iteration of the while loop without the radius test.
bfs_step_unbounded(pg, st, filter) ==
    LET current == Head(st.queue)
        popped == [st EXCEPT !.queue = Tail(@)]
        out == explore(pg, popped,
                       edges_directed(pg, current.idx, "Outgoing"),
                       "Outgoing", current.dist, filter)
    IN  explore(pg, out, edges_directed(pg, current.idx, "Incoming"),
                "Incoming", current.dist, filter)

\* One iteration of the while loop of neighborhood: pop the front of the
\* queue, and unless it is at the radius, explore its outgoing and then its
\* incoming edges.
bfs_step(pg, st, filter) ==
    LET current == Head(st.queue)
        popped == [st EXCEPT !.queue = Tail(@)]
        out == explore(pg, popped,
                       edges_directed(pg, current.idx, "Outgoing"),
                       "Outgoing", current.dist, filter)
    IN  IF current.dist >= st.radius THEN popped
        ELSE explore(pg, out, edges_directed(pg, current.idx, "Incoming"),
                     "Incoming", current.dist, filter)

\* The NeighborhoodResult built from the locals after the loop.
bfs_result(center, st) ==
    [ok |-> TRUE, center |-> center, nodes |-> st.result_nodes,
     edges |-> st.result_edges, distances |-> st.distances]

\* The while loop of neighborhood run until the queue is empty.
RECURSIVE bfs_loop(_, _, _)
bfs_loop(pg, st, filter) ==
    IF st.queue = << >> THEN st
    ELSE bfs_loop(pg, bfs_step(pg, st, filter), filter)

\* neighborhood
neighborhood(g, center_id, radius, filter) ==
    IF ~get_node(g, center_id).some \/ ~get_index(g, center_id).some
    THEN NotFound
    ELSE LET center == get_node(g, center_id).val
         IN  bfs_result(center,
                 bfs_loop(g.graph,
                          bfs_start(center, get_index(g, center_id).val,
                                    radius),
                          filter))

\* ------------------------------------------------------------------------
\* calculate_centrality and find_bridges
\* ------------------------------------------------------------------------

\* GraphData::iter_nodes: the values of the id-to-Node table, in any of the
\* orders the table can iterate in.
iter_nodes(g) ==
    {[i \in 1..Len(o) |-> g.nodes[o[i]]] : o \in Orders(DOMAIN g.nodes)}

\* The list left in the order it was collected in.
sort_by_score_skipped(ps) == ps

\* Vec::sort_by with the comparison b.score against a.score on a list of
\* scored entries: descending, and stable, so that entries of equal score
\* keep their order.
RECURSIVE sort_by_score(_)
sort_by_score(ps) ==
    IF ps = << >> THEN << >>
    ELSE LET n == Len(ps)
             sorted == sort_by_score(SubSeq(ps, 1, n - 1))
             k == Cardinality({i \in 1..Len(sorted) :
                                  sorted[i].score >= ps[n].score})
         IN  SubSeq(sorted, 1, k) \o <<ps[n]>>
                 \o SubSeq(sorted, k + 1, Len(sorted))

\* The number of edges of node idx in a direction.
degree_count(pg, idx, dirn) == Len(edges_directed(pg, idx, dirn))

\* The CentralityScore of a node of a graph of n nodes; a quotient is kept
\* as the pair <<numerator, denominator>>.
CentralityScore(g, node, n) ==
    LET idx == get_index(g, node.id).val
        in_deg == degree_count(g.graph, idx, "Incoming")
        out_deg == degree_count(g.graph, idx, "Outgoing")
    IN  [node_id |-> node.id,
         degree |-> <<in_deg + out_deg, 2 * (n - 1)>>,
         in_degree |-> <<in_deg, n - 1>>,
         out_degree |-> <<out_deg, n - 1>>]

\* The scores of the nodes ns as the map closure computes them, sorted.
\* All degrees have the same denominator, so they are compared by their
\* numerators.
score_nodes(g, ns, n) ==
    LET scores == [i \in 1..Len(ns) |->
                      LET c == CentralityScore(g, ns[i], n)
                      IN  [score |-> c.degree[1], item |-> c]]
        sorted == sort_by_score(scores)
    IN  [i \in 1..Len(sorted) |-> sorted[i].item]

\* calculate_centrality: the lists it can return, one for each iteration
\* order of the table.
calculate_centrality(g) ==
    IF node_count(g) < 2 THEN {<< >>}
    ELSE {score_nodes(g, ns, node_count(g)) : ns \in iter_nodes(g)}

\* The field Node::category.
category(node) == node.category

\* The bridge score without the category diversity.
bridge_score_connectivity(g, node) ==
    LET idx == get_index(g, node.id).val
        in_deg == degree_count(g.graph, idx, "Incoming")
        out_deg == degree_count(g.graph, idx, "Outgoing")
    IN  (IF in_deg < out_deg THEN in_deg ELSE out_deg) + 1

\* The bridge score of a node: connectivity times category diversity.
bridge_score(g, node) ==
    LET idx == get_index(g, node.id).val
        in_deg == degree_count(g.graph, idx, "Incoming")
        out_deg == degree_count(g.graph, idx, "Outgoing")
        outgoing == edges_directed(g.graph, idx, "Outgoing")
        neighbors == {g.graph.nodes[outgoing[i].target] :
                         i \in 1..Len(outgoing)}
        neighbor_categories ==
            {category(nb).val : nb \in {x \in neighbors : category(x).some}}
        diversity == Cardinality(neighbor_categories)
        least == IF in_deg < out_deg THEN in_deg ELSE out_deg
    IN  (least + 1) * (diversity + 1)

\* find_bridges: the lists it can return, one for each iteration order of
\* the table.
find_bridges(g, limit) ==
    {LET scores == [i \in 1..Len(ns) |->
                       [score |-> bridge_score(g, ns[i]),
                        item |-> ns[i].id]]
         sorted == sort_by_score(scores)
         taken == SubSeq(sorted, 1,
                         IF limit < Len(sorted) THEN limit ELSE Len(sorted))
     IN  [i \in 1..Len(taken) |-> get_node(g, taken[i].item).val] :
     ns \in iter_nodes(g)}

\* The nodes of a queried graph, in the order they are added.
QIds == <<"a", "b", "c">>

\* The pairs of ids that can also carry a RelatesTo edge.
QRelatedPairs == {<<"a", "b">>, <<"b", "a">>, <<"c", "c">>}

\* The edges a queried graph is built from: a Prerequisite edge for every
\* pair of ids, RelatesTo edges on some pairs, and one edge with an explicit
\* low weight.
QEdgeInputs ==
    {Edge(f, t, Prerequisite) : f \in Ids, t \in Ids} \cup
    {Edge(p[1], p[2], RelatesTo) : p \in QRelatedPairs} \cup
    {[Edge("a", "c", Custom("x")) EXCEPT !.weight = 3]}

InitQuery ==
    /\ graph = GraphDataNew
    /\ call = NoCall
    /\ query = NoQuery
    /\ NoTools
    /\ dir = {}
    /\ BuilderNew(Config(FALSE, "FailFast", FALSE, FALSE))

\* No neighborhood call is running: the graph is borrowed for the length
\* of a query.
QueryIdle ==
    IF query.op = "neighborhood" THEN query.pc = "returned" ELSE TRUE

\* add_node on the graph that is queried.
GrowNode ==
    /\ QueryIdle
    /\ node_count(graph) < Len(QIds)
    /\ graph' = add_node(graph, Node(QIds[node_count(graph) + 1], "t1")).g
    /\ query' = NoQuery
    /\ UNCHANGED <<call, bvars, dir, prev, tvars>>

\* The nodes offered for position i of a queried graph: the first without a
\* category, the second in one category, the third in that category or in
\* another.
QNodeInputs(i) ==
    IF i = 1 THEN {Node(QIds[i], "t1")}
    ELSE {with_category(Node(QIds[i], "t1"), c) :
             c \in IF i = 2 THEN {"x"} ELSE {"x", "y"}}

\* add_node on the graph that is queried, with a node that has a category.
GrowQNode ==
    /\ QueryIdle
    /\ node_count(graph) < Len(QIds)
    /\ \E node \in QNodeInputs(node_count(graph) + 1) :
           graph' = add_node(graph, node).g
    /\ query' = NoQuery
    /\ UNCHANGED <<call, bvars, dir, prev, tvars>>

\* add_edge on the graph that is queried, with an edge of inputs.
GrowEdgeFrom(inputs) ==
    /\ QueryIdle
    /\ edge_count(graph) < MaxQEdges
    /\ \E edge \in inputs :
        /\ add_edge(graph, edge).ok
        /\ graph' = add_edge(graph, edge).g
    /\ query' = NoQuery
    /\ UNCHANGED <<call, bvars, dir, prev, tvars>>

GrowEdge == GrowEdgeFrom(QEdgeInputs)

\* A prerequisites_sorted call.
Prerequisites ==
    /\ \E target_id \in Ids :
        \E r \in prerequisites_sorted(graph, target_id) :
            query' = [op |-> "prerequisites_sorted", target_id |-> target_id,
                      ret |-> r]
    /\ UNCHANGED <<graph, call, bvars, dir, prev, tvars>>

\* A shortest_path call.
ShortestPath ==
    /\ \E from_id \in Ids, to_id \in Ids :
        \E r \in shortest_path(graph, from_id, to_id) :
            query' = [op |-> "shortest_path", from_id |-> from_id,
                      to_id |-> to_id, ret |-> r]
    /\ UNCHANGED <<graph, call, bvars, dir, prev, tvars>>

\* The limits find_bridges is called with.
BridgeLimits == {1, 3}

\* calculate_centrality evaluated twice, the second time on a graph built
\* by the same calls, whose table can iterate in another order.
Centrality ==
    /\ query = NoQuery
    /\ \E r1 \in calculate_centrality(graph),
          r2 \in calculate_centrality(graph) :
        query' = [op |-> "calculate_centrality", ret |-> r1, again |-> r2]
    /\ UNCHANGED <<graph, call, bvars, dir, prev, tvars>>

\* find_bridges evaluated twice in the same way.
Bridges ==
    /\ query = NoQuery
    /\ \E limit \in BridgeLimits :
        \E r1 \in find_bridges(graph, limit),
           r2 \in find_bridges(graph, limit) :
            query' = [op |-> "find_bridges", limit |-> limit, ret |-> r1,
                      again |-> r2]
    /\ UNCHANGED <<graph, call, bvars, dir, prev, tvars>>

NextQuery ==
    \/ GrowQNode
    \/ GrowEdge
    \/ Prerequisites
    \/ ShortestPath
    \/ Centrality
    \/ Bridges

SpecQuery == InitQuery /\ [][NextQuery]_vars

\* ------------------------------------------------------------------------
\* neighborhood, one loop iteration at a time
\* ------------------------------------------------------------------------

\* Number of nodes of the long chain.
MaxChain == 12

ChainIds ==
    <<"a", "b", "c", "d", "e", "f", "g", "h", "i", "j", "k", "l", "m", "n",
      "o", "p", "q", "r", "s", "t", "u", "v">>

\* The edge at position i of a chain: forward from an odd position,
\* backward from an even one, all Prerequisite but the fifth.
ChainEdge(i) ==
    LET rel == IF i = 5 THEN RelatesTo ELSE Prerequisite
    IN  IF i % 2 = 1 THEN Edge(ChainIds[i], ChainIds[i + 1], rel)
        ELSE Edge(ChainIds[i + 1], ChainIds[i], rel)

\* A chain over the first n ids, built with add_node and add_edge: each
\* node is added and then joined to the one before it.
RECURSIVE Chain(_)
Chain(n) ==
    IF n = 0 THEN GraphDataNew
    ELSE LET g == add_node(Chain(n - 1), Node(ChainIds[n], "t1")).g
         IN  IF n = 1 THEN g ELSE add_edge(g, ChainEdge(n - 1)).g

\* The long graphs: the chain, the chain with a self-loop on its first
\* node, and the chain with an edge that closes a cycle.
ChainGraphs ==
    {Chain(MaxChain)} \cup
    {add_edge(Chain(MaxChain), e).g :
        e \in {Edge("a", "a", Prerequisite), Edge("c", "a", Prerequisite)}}

\* The edges a small graph is built from.
NbrEdgeInputs ==
    {Edge("a", "b", Prerequisite), Edge("b", "a", Prerequisite),
     Edge("b", "c", Prerequisite), Edge("a", "a", Prerequisite),
     Edge("a", "b", RelatesTo)}

NbrRadii == {0, 1, 10, 1000}

NbrFilters == {None, Some({Prerequisite})}

InitNbr ==
    /\ graph \in {GraphDataNew} \cup ChainGraphs
    /\ call = NoCall
    /\ query = NoQuery
    /\ NoTools
    /\ dir = {}
    /\ BuilderNew(Config(FALSE, "FailFast", FALSE, FALSE))

GrowNbrEdge == GrowEdgeFrom(NbrEdgeInputs)

\* neighborhood is called: the lookups, the clamp and the locals.
NbrCall ==
    /\ query = NoQuery
    /\ \E center_id \in Ids, radius \in NbrRadii, filter \in NbrFilters :
        LET found == get_node(graph, center_id).some
                         /\ get_index(graph, center_id).some
        IN  query' =
                IF found
                THEN [op |-> "neighborhood", center_id |-> center_id,
                      radius |-> radius, filter |-> filter, pc |-> "loop",
                      st |-> bfs_start(get_node(graph, center_id).val,
                                       get_index(graph, center_id).val,
                                       radius),
                      ret |-> None]
                ELSE [op |-> "neighborhood", center_id |-> center_id,
                      radius |-> radius, filter |-> filter,
                      pc |-> "returned", st |-> None, ret |-> NotFound]
    /\ UNCHANGED <<graph, call, bvars, dir, prev, tvars>>

\* One iteration of the while loop.
NbrStep ==
    /\ query.op = "neighborhood" /\ query.pc = "loop"
    /\ query.st.queue # << >>
    /\ query' = [query EXCEPT !.st = bfs_step(graph.graph, @, query.filter)]
    /\ UNCHANGED <<graph, call, bvars, dir, prev, tvars>>

\* The queue is empty: the result is built and returned.
NbrReturn ==
    /\ query.op = "neighborhood" /\ query.pc = "loop"
    /\ query.st.queue = << >>
    /\ query' = [query EXCEPT
                    !.pc = "returned",
                    !.ret = bfs_result(get_node(graph, query.center_id).val,
                                       query.st)]
    /\ UNCHANGED <<graph, call, bvars, dir, prev, tvars>>

\* The caller drops the result of the call.
NbrDrop ==
    /\ query.op = "neighborhood" /\ query.pc = "returned"
    /\ query' = NoQuery
    /\ UNCHANGED <<graph, call, bvars, dir, prev, tvars>>

NextNbr == GrowNode \/ GrowNbrEdge \/ NbrCall \/ NbrStep \/ NbrReturn \/ NbrDrop

SpecNbr == InitNbr /\ [][NextNbr]_vars

\* The loop is not left waiting: a call that can take a step takes it.
SpecNbrFair == SpecNbr /\ WF_query(NbrStep) /\ WF_query(NbrReturn)

\* ------------------------------------------------------------------------
\* Direct lookups: get_related and the wrappers on GraphData
\* ------------------------------------------------------------------------

\* get_related: the (neighbor, relationship) pairs of the edges of node_id
\* in the direction given whose relationship is in relationships, in the
\* order edges_directed hands the edges out.
get_related(g, node_id, relationships, direction) ==
    IF ~get_index(g, node_id).some THEN NotFound
    ELSE LET pg == g.graph
             idx == get_index(g, node_id).val
             Contained(e) == e.weight.relationship \in relationships
             edges == SelectSeq(edges_directed(pg, idx, direction), Contained)
             neighbor_idx(e) ==
                 IF direction = "Outgoing" THEN e.target ELSE e.source
         IN  [ok |-> TRUE,
              val |-> [i \in 1..Len(edges) |->
                          <<pg.nodes[neighbor_idx(edges[i])],
                            edges[i].weight.relationship>>]]

\* The map dropping the relationship of each pair.
nodes_of(results) ==
    IF ~results.ok THEN results
    ELSE [ok |-> TRUE,
          val |-> [i \in 1..Len(results.val) |-> results.val[i][1]]]

\* GraphData::prerequisites
prerequisites(g, node_id) ==
    nodes_of(get_related(g, node_id, {Prerequisite}, "Outgoing"))

\* GraphData::dependents following the outgoing edges.
dependents_outgoing(g, node_id) ==
    nodes_of(get_related(g, node_id, {Prerequisite}, "Outgoing"))

\* GraphData::dependents
dependents(g, node_id) ==
    nodes_of(get_related(g, node_id, {Prerequisite}, "Incoming"))

\* GraphData::related_by
related_by(g, node_id, relationship) ==
    nodes_of(get_related(g, node_id, {relationship}, "Outgoing"))

\* The relationship slices get_related is called with.
RelatedFilters == {{}, {Prerequisite}, {Prerequisite, RelatesTo}}

\* A call of get_related.
GetRelated ==
    /\ query = NoQuery
    /\ \E node_id \in Ids, relationships \in RelatedFilters,
          direction \in {"Outgoing", "Incoming"} :
        query' = [op |-> "get_related", node_id |-> node_id,
                  relationships |-> relationships, direction |-> direction,
                  ret |-> get_related(graph, node_id, relationships,
                                      direction)]
    /\ UNCHANGED <<graph, call, bvars, dir, prev, tvars>>

\* A call of one of the wrappers prerequisites, dependents and related_by.
Related ==
    /\ query = NoQuery
    /\ \E node_id \in Ids :
        \/ query' = [op |-> "prerequisites", node_id |-> node_id,
                     ret |-> prerequisites(graph, node_id)]
        \/ query' = [op |-> "dependents", node_id |-> node_id,
                     ret |-> dependents(graph, node_id)]
        \/ \E relationship \in {Prerequisite, RelatesTo} :
               query' = [op |-> "related_by", node_id |-> node_id,
                         relationship |-> relationship,
                         ret |-> related_by(graph, node_id, relationship)]
    /\ UNCHANGED <<graph, call, bvars, dir, prev, tvars>>

\* A result of a lookup is dropped.
LookupDrop ==
    /\ query.op \in {"get_related", "prerequisites", "dependents",
                     "related_by", "prerequisites_sorted"}
    /\ query' = NoQuery
    /\ UNCHANGED <<graph, call, bvars, dir, prev, tvars>>

NextLookup ==
    \/ GrowQNode
    \/ GrowNbrEdge
    \/ NbrCall
    \/ NbrStep
    \/ NbrReturn
    \/ NbrDrop
    \/ Prerequisites
    \/ GetRelated
    \/ Related
    \/ LookupDrop

SpecLookup == InitQuery /\ [][NextLookup]_vars

\* ------------------------------------------------------------------------
\* GraphTools: tool calls and update_graph on one shared graph
\* ------------------------------------------------------------------------

\* The callers of the graph_centrality tool and the caller of update_graph.
QueryTasks == {"q1", "q2"}

UpdateTasks == {"u1"}

\* Number of update_graph calls.
MaxUpdates == 2

\* The graphs update_graph installs.
ToolGraphs == {Chain(2), Chain(3)}

\* tokio RwLock: the read guards and the write guard that are out.
RwLockNew == [readers |-> {}, writer |-> FALSE]

\* read().await completes when no write guard is out.  The order in which
\* waiting tasks are served is left open.
read_available(l) == ~l.writer

\* A write guard handed out while read guards are out.
write_available_beside_readers(l) == ~l.writer

\* write().await completes when no guard at all is out.
write_available(l) == ~l.writer /\ l.readers = {}

Idle == [pc |-> "idle"]

\* The newest graph whose update_graph call has returned, as an index of
\* the installed graphs.
newest_returned ==
    IF \E u \in UpdateTasks : tasks[u].pc = "assigned"
    THEN Len(installed) - 1 ELSE Len(installed)

\* Vec::into_iter().take(limit) with the default limit.
take_default(list) == SubSeq(list, 1, IF Len(list) < 10 THEN Len(list) ELSE 10)

\* GraphTools::new(GraphData::new())
InitTools ==
    /\ graph = GraphDataNew
    /\ lock = RwLockNew
    /\ tasks = [t \in QueryTasks \cup UpdateTasks |-> Idle]
    /\ installed = <<GraphDataNew>>
    /\ call = NoCall
    /\ query = NoQuery
    /\ dir = {}
    /\ BuilderNew(Config(FALSE, "FailFast", FALSE, FALSE))

\* GraphTools::call("graph_centrality", ..): the future is made.
ToolCall ==
    /\ \E t \in QueryTasks :
        /\ tasks[t].pc = "idle"
        /\ tasks' = [tasks EXCEPT
                        ![t] = [pc |-> "called", after |-> newest_returned]]
    /\ UNCHANGED <<graph, call, bvars, dir, prev, query, lock, installed>>

\* graph.read().await
ReadAcquire ==
    /\ \E t \in QueryTasks :
        /\ tasks[t].pc = "called"
        /\ read_available(lock)
        /\ lock' = [lock EXCEPT !.readers = @ \cup {t}]
        /\ tasks' = [tasks EXCEPT ![t].pc = "guarded"]
    /\ UNCHANGED <<graph, call, bvars, dir, prev, query, installed>>

\* calculate_centrality, first part: node_count, the early return, and the
\* nodes iter_nodes hands out.
ReadNodes ==
    /\ \E t \in QueryTasks :
        /\ tasks[t].pc = "guarded"
        /\ IF node_count(graph) < 2
           THEN tasks' = [tasks EXCEPT
                    ![t] = [pc |-> "scored", after |-> @.after,
                            ret |-> [panicked |-> FALSE, top |-> << >>]]]
           ELSE \E ns \in iter_nodes(graph) :
                    tasks' = [tasks EXCEPT
                        ![t] = [pc |-> "scoring", after |-> @.after,
                                n |-> node_count(graph), ns |-> ns]]
    /\ UNCHANGED <<graph, call, bvars, dir, prev, query, lock, installed>>

\* calculate_centrality, second part: the index and the degrees of each
\* node, the sort, and take(limit).  get_index(..).unwrap() panics on a
\* node without an index.
Score ==
    /\ \E t \in QueryTasks :
        /\ tasks[t].pc = "scoring"
        /\ LET ns == tasks[t].ns
               ret == IF \E i \in 1..Len(ns) : ~get_index(graph, ns[i].id).some
                      THEN [panicked |-> TRUE]
                      ELSE [panicked |-> FALSE,
                            top |-> take_default(
                                        score_nodes(graph, ns, tasks[t].n))]
           IN  tasks' = [tasks EXCEPT
                           ![t] = [pc |-> "scored", after |-> @.after,
                                   ret |-> ret]]
    /\ UNCHANGED <<graph, call, bvars, dir, prev, query, lock, installed>>

\* The read guard is dropped at the end of the async block.
ReadRelease ==
    /\ \E t \in QueryTasks :
        /\ tasks[t].pc = "scored"
        /\ lock' = [lock EXCEPT !.readers = @ \ {t}]
        /\ tasks' = [tasks EXCEPT ![t].pc = "done"]
    /\ UNCHANGED <<graph, call, bvars, dir, prev, query, installed>>

\* update_graph(graph) is called.
UpdateCall ==
    /\ \E u \in UpdateTasks, g \in ToolGraphs :
        /\ tasks[u].pc = "idle"
        /\ Len(installed) <= MaxUpdates
        /\ tasks' = [tasks EXCEPT ![u] = [pc |-> "called", graph |-> g]]
    /\ UNCHANGED <<graph, call, bvars, dir, prev, query, lock, installed>>

\* self.graph.write().await
WriteAcquire ==
    /\ \E u \in UpdateTasks :
        /\ tasks[u].pc = "called"
        /\ write_available(lock)
        /\ lock' = [lock EXCEPT !.writer = TRUE]
        /\ tasks' = [tasks EXCEPT ![u].pc = "locked"]
    /\ UNCHANGED <<graph, call, bvars, dir, prev, query, installed>>

\* *lock = graph
Assign ==
    /\ \E u \in UpdateTasks :
        /\ tasks[u].pc = "locked"
        /\ graph' = tasks[u].graph
        /\ installed' = Append(installed, tasks[u].graph)
        /\ tasks' = [tasks EXCEPT ![u].pc = "assigned"]
    /\ UNCHANGED <<call, bvars, dir, prev, query, lock>>

\* The write guard is dropped and update_graph returns.
WriteRelease ==
    /\ \E u \in UpdateTasks :
        /\ tasks[u].pc = "assigned"
        /\ lock' = [lock EXCEPT !.writer = FALSE]
        /\ tasks' = [tasks EXCEPT ![u] = Idle]
    /\ UNCHANGED <<graph, call, bvars, dir, prev, query, installed>>

NextTools ==
    \/ ToolCall
    \/ ReadAcquire
    \/ ReadNodes
    \/ Score
    \/ ReadRelease
    \/ UpdateCall
    \/ WriteAcquire
    \/ Assign
    \/ WriteRelease

SpecTools == InitTools /\ [][NextTools]_vars

\* ------------------------------------------------------------------------
\* Properties of the runtime mutation API
\* ------------------------------------------------------------------------

\* How often value v occurs in sequence s.
Count(s, v) == Cardinality({i \in 1..Len(s) : s[i] = v})

\* The Edge payloads of the graph structure, in slot order.
GraphWeights(g) == [i \in 1..Len(g.graph.edges) |-> g.graph.edges[i].weight]

\* A graph-structure edge joins the slots that hold its from and to nodes.
SlotsMatch(g, e) ==
    /\ e.source \in 1..Len(g.graph.nodes)
    /\ e.target \in 1..Len(g.graph.nodes)
    /\ g.graph.nodes[e.source].id = e.weight.from
    /\ g.graph.nodes[e.target].id = e.weight.to

\* C1: after any sequence of add_node, add_edge and remove_node calls the
\* flat edge list and the graph structure hold the same multiset of edges
\* (so edges.len() = edge_count()), and each graph-structure edge joins the
\* nodes its payload names.
C1_EdgesInSync ==
    /\ Len(graph.edges) = edge_count(graph)
    /\ \A e \in EdgeInputs :
           Count(graph.edges, e) = Count(GraphWeights(graph), e)
    /\ \A i \in 1..Len(graph.graph.edges) :
           SlotsMatch(graph, graph.graph.edges[i])

\* C1 witness: a removal has just dropped a node while an edge between two
\* other nodes survives in both stores.
C1_Witness ==
    /\ call.op = "remove_node" /\ call.ok
    /\ Len(graph.edges) >= 1
    /\ edge_count(graph) >= 1

\* No edge of g, in either store, names id.
NoEdgeTouches(g, id) ==
    /\ \A i \in 1..Len(g.edges) : g.edges[i].from # id /\ g.edges[i].to # id
    /\ \A i \in 1..Len(g.graph.edges) :
           /\ g.graph.edges[i].weight.from # id
           /\ g.graph.edges[i].weight.to # id

\* get_index(id) answers with a slot of the graph structure that holds node n.
Resolves(g, id, n) ==
    /\ get_node(g, id) = Some(n)
    /\ get_index(g, id).some
    /\ get_index(g, id).val \in 1..Len(g.graph.nodes)
    /\ g.graph.nodes[get_index(g, id).val] = n

\* C2: remove_node(id) of a present id returns the removed node, leaves no
\* edge from or to id in either store, no entry for id in either map, and
\* every other node resolvable; of an absent id it returns None and changes
\* nothing.
C2_RemoveNode ==
    [][call'.op = "remove_node" =>
         LET id == call'.node.id
         IN  IF id \in DOMAIN graph.nodes
             THEN /\ call'.ok
                  /\ call'.ret = graph.nodes[id]
                  /\ NoEdgeTouches(graph', id)
                  /\ id \notin DOMAIN graph'.node_indices
                  /\ id \notin DOMAIN graph'.nodes
                  /\ DOMAIN graph'.nodes = (DOMAIN graph.nodes) \ {id}
                  /\ \A o \in (DOMAIN graph.nodes) \ {id} :
                         Resolves(graph', o, graph.nodes[o])
             ELSE /\ ~call'.ok
                  /\ graph' = graph]_vars

\* C2 witness: the first of three nodes was removed, together with a
\* self-loop or another incident edge, and two nodes remain.
C2_Witness ==
    /\ call.op = "remove_node" /\ call.ok
    /\ node_count(graph) = 2
    /\ Len(graph.edges) = 1
    /\ "c" \in DOMAIN graph.node_indices
    /\ graph.node_indices["c"] = 1

\* C3: add_node of an id that is present changes nothing and returns the
\* index mapped to the id; that index is the one the inserting call
\* returned, because an insertion stores the index it returns and only
\* remove_node changes a stored index.
C3_AddNodeIdempotent ==
    [][/\ (call'.op = "add_node" /\ call'.node.id \in DOMAIN graph.nodes) =>
              /\ graph' = graph
              /\ call'.idx = graph.node_indices[call'.node.id]
       /\ (call'.op = "add_node" /\ call'.node.id \notin DOMAIN graph.nodes) =>
              /\ call'.node.id \in DOMAIN graph'.node_indices
              /\ graph'.node_indices[call'.node.id] = call'.idx
              /\ node_count(graph') = node_count(graph) + 1
       /\ call'.op # "remove_node" =>
              \A id \in DOMAIN graph.node_indices :
                  /\ id \in DOMAIN graph'.node_indices
                  /\ graph'.node_indices[id] = graph.node_indices[id]]_vars

\* C3 witness: add_node was called for a present id with a title other
\* than the stored one, while the graph has edges.
C3_Witness ==
    /\ call.op = "add_node"
    /\ call.node.id \in DOMAIN graph.nodes
    /\ graph.nodes[call.node.id] # call.node
    /\ Len(graph.edges) >= 1
    /\ call.idx = 2

\* C4: add_edge with an absent endpoint returns NotFound and changes
\* nothing; with both endpoints present it succeeds and appends that one
\* edge to the graph structure and to the flat list.
C4_AddEdge ==
    [][call'.op = "add_edge" =>
         LET e == call'.edge
         IN  IF e.from \in DOMAIN graph.nodes /\ e.to \in DOMAIN graph.nodes
             THEN /\ call'.ok
                  /\ graph'.edges = Append(graph.edges, e)
                  /\ Len(graph'.graph.edges) = Len(graph.graph.edges) + 1
                  /\ SubSeq(graph'.graph.edges, 1, Len(graph.graph.edges))
                         = graph.graph.edges
                  /\ graph'.graph.edges[Len(graph'.graph.edges)].weight = e
                  /\ graph'.graph.nodes = graph.graph.nodes
                  /\ graph'.nodes = graph.nodes
                  /\ graph'.node_indices = graph.node_indices
             ELSE /\ ~call'.ok
                  /\ call'.node.id \in {e.from, e.to}
                  /\ call'.node.id \notin DOMAIN graph.nodes
                  /\ graph' = graph]_vars

\* C4 witness: add_edge failed on a missing target while its source is a
\* node and the graph already holds an edge.
C4_Witness ==
    /\ call.op = "add_edge" /\ ~call.ok
    /\ call.edge.from \in DOMAIN graph.nodes
    /\ call.edge.to \notin DOMAIN graph.nodes
    /\ Len(graph.edges) >= 1

\* C5: every edge of the flat list and of the graph structure has its from
\* and its to among the nodes of the graph.
C5_EndpointsExist ==
    /\ \A i \in 1..Len(graph.edges) :
           /\ graph.edges[i].from \in DOMAIN graph.nodes
           /\ graph.edges[i].to \in DOMAIN graph.nodes
    /\ \A i \in 1..Len(graph.graph.edges) :
           /\ graph.graph.edges[i].weight.from \in DOMAIN graph.nodes
           /\ graph.graph.edges[i].weight.to \in DOMAIN graph.nodes

\* C5 witness: a node was removed and one edge between the remaining nodes
\* is left.
C5_Witness ==
    /\ call.op = "remove_node" /\ call.ok
    /\ node_count(graph) = 2
    /\ Len(graph.edges) = 1
    /\ graph.edges[1].from # graph.edges[1].to

\* ------------------------------------------------------------------------
\* Properties of GraphBuilder::build
\* ------------------------------------------------------------------------

\* The ids of the files read so far that did not fail.
ReadIds == {read[i] : i \in 1..Len(read)} \ {""}

\* The indices of the files read so far that failed.
FailedFiles == {i \in 1..Len(read) : read[i] = ""}

\* The edge a pending entry carries.
EntryEdge(entry) == entry.edge_data[1]

\* Phase 2 is over.
EdgesDone == pc \in {"phase3", "manual", "save", "done"}

\* C6: while phase 1 runs no edge has been inserted, recorded as dangling
\* or entered in the dedup set, and edges exist only once every discovered
\* file was read; so after phase 2 every queued edge whose endpoints are
\* nodes of non-failing files, also files read after the declaring one, is
\* in the graph and not among the dangling references.
C6_NodesBeforeEdges ==
    /\ pc = "phase1" =>
           /\ edge_count(graph) = 0 /\ graph.edges = << >>
           /\ stats.dangling_refs = << >> /\ seen_edges = {}
    /\ (edge_count(graph) > 0 \/ stats.dangling_refs # << >>) =>
           Len(read) = files
    /\ EdgesDone =>
           \A i \in 1..Len(pending_edges) :
               LET e == EntryEdge(pending_edges[i])
               IN  (e.from \in ReadIds /\ e.to \in ReadIds) =>
                       /\ \E k \in 1..Len(graph.edges) : graph.edges[k] = e
                       /\ \A k \in 1..Len(stats.dangling_refs) :
                              stats.dangling_refs[k] #
                                  DanglingRef(FALSE, e.from,
                                              name(e.relationship), e.to)

\* C6 witness: the first file declares an edge to the node of the second
\* file, and the finished build holds that edge.
C6_Witness ==
    /\ pc = "done" /\ result.status = "Ok"
    /\ read = <<"a", "b">>
    /\ Len(pending_edges) = 1
    /\ pending_edges[1].from_id = "a"
    /\ EntryEdge(pending_edges[1]).to = "b"
    /\ graph.edges = <<EntryEdge(pending_edges[1])>>
    /\ stats.dangling_refs = << >>

\* An endpoint of the edge from -> to is not a node of the graph being built.
Dangles(from, to) ==
    from \notin DOMAIN graph.nodes \/ to \notin DOMAIN graph.nodes

\* What a step that meets a dangling edge does: the graph, the dedup set
\* and the counters stay, one entry naming both endpoints is appended, and
\* the build goes on.
DanglingStep(ref) ==
    /\ graph' = graph
    /\ seen_edges' = seen_edges
    /\ stats'.dangling_refs = Append(stats.dangling_refs, ref)
    /\ stats'.edges_created = stats.edges_created
    /\ stats'.deduped_edges = stats.deduped_edges
    /\ loaded' = loaded
    /\ stats'.manual_edges_loaded \in {stats.manual_edges_loaded, loaded}
    /\ pc' # "failed"
    /\ result' = result

\* C7: an extracted or manual edge with an endpoint that is not a node is
\* not inserted, appends exactly one dangling_refs entry that names its
\* endpoints, does not fail the build and counts neither as created, nor
\* as loaded, nor as deduplicated.
C7_DanglingRecorded ==
    [][/\ (pc = "phase2" /\ Dangles(EntryEdge(pending_edges[pos]).from,
                                    EntryEdge(pending_edges[pos]).to)) =>
              LET e == EntryEdge(pending_edges[pos])
              IN  DanglingStep(DanglingRef(FALSE, e.from,
                                           name(e.relationship), e.to))
       /\ (pc = "manual" /\ Dangles(manual_edges[pos].from,
                                    manual_edges[pos].to)) =>
              LET m == manual_edges[pos]
              IN  DanglingStep(DanglingRef(TRUE, m.from, m.relationship,
                                           m.to))]_vars

\* C7 witness: a finished build that recorded an extracted and a manual
\* dangling reference and still loaded a manual edge.
C7_Witness ==
    /\ pc = "done" /\ result.status = "Ok"
    /\ \E i, j \in 1..Len(stats.dangling_refs) :
           /\ ~stats.dangling_refs[i].manual
           /\ stats.dangling_refs[j].manual
    /\ stats.edges_created = 0
    /\ stats.manual_edges_loaded = 0
    /\ Len(manual_edges) = 1

\* The triple an edge is declared with: the relationship's name for an
\* extracted edge, the relationship text for a manual record.
Occurrence(from, to, text, edge) ==
    [key |-> <<from, to, text>>, edge |-> edge]

\* The edge load_manual_edges builds from a record.
ManualAsEdge(m) ==
    [from |-> m.from, to |-> m.to,
     relationship |-> parse_relationship(m.relationship),
     weight |-> default_weight(parse_relationship(m.relationship)),
     origin |-> "Manual"]

\* Every edge declaration the build met, in processing order.
Occurrences ==
    [i \in 1..Len(pending_edges) |->
        LET e == EntryEdge(pending_edges[i])
        IN  Occurrence(e.from, e.to, name(e.relationship), e)]
    \o
    [i \in 1..Len(manual_edges) |->
        LET m == manual_edges[i]
        IN  Occurrence(m.from, m.to, m.relationship, ManualAsEdge(m))]

\* The declarations whose endpoints are nodes of the built graph.
LiveOccurrences ==
    LET Live(o) == ~Dangles(o.key[1], o.key[2])
    IN  SelectSeq(Occurrences, Live)

\* s without the elements whose key an earlier element has.
RECURSIVE FirstOfEachKey(_, _)
FirstOfEachKey(s, seen) ==
    IF s = << >> THEN << >>
    ELSE IF Head(s).key \in seen THEN FirstOfEachKey(Tail(s), seen)
    ELSE <<Head(s)>> \o FirstOfEachKey(Tail(s), seen \cup {Head(s).key})

C9_NoDuplicateRelationship ==
    pc = "done" =>
        \A i, j \in 1..Len(graph.edges) :
            (/\ graph.edges[i].from = graph.edges[j].from
             /\ graph.edges[i].to = graph.edges[j].to
             /\ graph.edges[i].relationship = graph.edges[j].relationship)
                => i = j

BuildReturns == pc = "start" /\ pc' # "start"

\* The returning build had a cache path and did not skip the cache, and
\* the build before it succeeded with a cache path.
FollowsCachedBuild ==
    /\ cfg.content_path /\ cfg.cache_path /\ ~cfg.skip_cache
    /\ prev.status = "Ok" /\ prev.cache_path

\* The cache file written by the returning build.
WritesCache ==
    cache' = Some([graph |-> graph',
                   content_hash |-> compute_content_hash(dir),
                   source_file_count |-> stats'.files_processed])

\* C11: with a cache path and without skip_cache, a build that follows a
\* successful build over an unchanged directory returns from_cache = true
\* and files_processed = 0; after a content file was added it returns
\* from_cache = false, processes every file and overwrites the cache; with
\* skip_cache it returns from_cache = false and still writes the cache.
C11_CacheReuse ==
    [][BuildReturns =>
        /\ (FollowsCachedBuild /\ dir = prev.dir) =>
               /\ result'.status = "Ok"
               /\ stats'.from_cache
               /\ stats'.files_processed = 0
        /\ (/\ FollowsCachedBuild
            /\ prev.dir \subseteq dir
            /\ \E f \in dir \ prev.dir :
                   \E i \in 1..Len(discover_files(dir)) :
                       discover_files(dir)[i] = f) =>
               /\ result'.status = "Ok"
               /\ ~stats'.from_cache
               /\ stats'.files_processed = Len(discover_files(dir))
               /\ WritesCache
        /\ (cfg.content_path /\ cfg.cache_path /\ cfg.skip_cache) =>
               /\ result'.status = "Ok"
               /\ ~stats'.from_cache
               /\ stats'.files_processed = Len(discover_files(dir))
               /\ WritesCache]_vars

\* ------------------------------------------------------------------------
\* Properties of prerequisites_sorted
\* ------------------------------------------------------------------------

\* The (from, to) pairs of the graph's edges whose relationship is in rels.
Pairs(g, rels) ==
    {<<g.edges[i].from, g.edges[i].to>> :
        i \in {j \in 1..Len(g.edges) : g.edges[j].relationship \in rels}}

\* The relationships that occur in the graph.
AllRels(g) == {g.edges[i].relationship : i \in 1..Len(g.edges)}

\* The ids in A and every id with a path along the pairs of E into A.
RECURSIVE Upward(_, _)
Upward(E, A) ==
    LET n == A \cup {p[1] : p \in {q \in E : q[2] \in A}}
    IN  IF n = A THEN A ELSE Upward(E, n)

\* The ids from which t is reachable along one or more pairs of E.
AncestorsOf(E, t) == Upward(E, {p[1] : p \in {q \in E : q[2] = t}})

\* The graph has a directed cycle.
Cyclic(g) ==
    \E x \in DOMAIN g.nodes : x \in AncestorsOf(Pairs(g, AllRels(g)), x)

\* The ids of a list of nodes.
IdsOf(ns) == {ns[i].id : i \in 1..Len(ns)}

\* A prerequisites_sorted call has returned a result.
PrereqReturned == query.op = "prerequisites_sorted" /\ query.ret.ok

\* C12: on a graph without a directed cycle prerequisites_sorted returns
\* has_cycles = false and lists, each once, exactly the nodes from which
\* the target is reachable along Prerequisite edges, a node x before a node
\* y whenever the graph has an edge x -> y between two listed nodes.
C12_SortedPrerequisites ==
    (PrereqReturned /\ ~Cyclic(graph)) =>
        LET ordered == query.ret.ordered
        IN  /\ ~query.ret.has_cycles
            /\ IdsOf(ordered) =
                   AncestorsOf(Pairs(graph, {Prerequisite}), query.target_id)
            /\ Cardinality(IdsOf(ordered)) = Len(ordered)
            /\ \A i, j \in 1..Len(ordered) :
                   <<ordered[i].id, ordered[j].id>>
                       \in Pairs(graph, AllRels(graph)) => i < j

\* A chain a -> b -> c has been queried for c, and a is listed before b.
C12_Witness ==
    /\ PrereqReturned /\ ~Cyclic(graph)
    /\ query.target_id = "c"
    /\ Len(query.ret.ordered) = 2
    /\ query.ret.ordered[1].id = "a"
    /\ <<"a", "b">> \in Pairs(graph, AllRels(graph))

\* C13 as stated: whenever the graph has a directed cycle anywhere,
\* prerequisites_sorted returns has_cycles = true, for any existing target,
\* with the set of transitive prerequisites; has_cycles = false is returned
\* only for graphs without a cycle.
C13_CycleAnywhereFlagged ==
    PrereqReturned =>
        /\ query.ret.has_cycles = Cyclic(graph)
        /\ IdsOf(query.ret.ordered) =
               AncestorsOf(Pairs(graph, {Prerequisite}), query.target_id)

\* C13 amended: a target with at least one transitive prerequisite gets
\* has_cycles = true exactly when the graph has a directed cycle anywhere,
\* with each transitive prerequisite listed once; a target without
\* prerequisites gets has_cycles = false and an empty list, also on a graph
\* with a cycle.
C13_CycleFlaggedWithPrerequisites ==
    PrereqReturned =>
        LET prereqs ==
                AncestorsOf(Pairs(graph, {Prerequisite}), query.target_id)
        IN  /\ query.ret.has_cycles = (Cyclic(graph) /\ prereqs # {})
            /\ IdsOf(query.ret.ordered) = prereqs
            /\ Cardinality(prereqs) = Len(query.ret.ordered)

\* b has the prerequisite a, the only cycle is a self-loop on c, and the
\* call for b returned the flag with a.
C13_Witness ==
    /\ PrereqReturned
    /\ query.target_id = "b"
    /\ query.ret.has_cycles
    /\ IdsOf(query.ret.ordered) = {"a"}
    /\ <<"c", "c">> \in Pairs(graph, AllRels(graph))
    /\ "b" \notin AncestorsOf(Pairs(graph, AllRels(graph)), "b")

\* ------------------------------------------------------------------------
\* Properties of shortest_path
\* ------------------------------------------------------------------------

\* A shortest_path call has returned.
PathReturned == query.op = "shortest_path"

\* The traversal cost 1 / max(weight, 0.01) of a weight in tenths, times
\* 2520, which keeps it whole for the weights of one to ten tenths.
TraversalCost(weight) == IF weight >= 1 THEN 25200 \div weight ELSE 2520000

\* The least total traversal cost of a directed walk of at most n edges
\* from id x to id y over the edge list es; -1 if there is none.
RECURSIVE LeastCost(_, _, _, _)
LeastCost(es, x, y, n) ==
    IF x = y THEN 0
    ELSE IF n = 0 THEN -1
    ELSE LET via == {TraversalCost(es[i].weight)
                         + LeastCost(es, es[i].to, y, n - 1) :
                     i \in {j \in 1..Len(es) :
                              /\ es[j].from = x
                              /\ LeastCost(es, es[j].to, y, n - 1) >= 0}}
         IN  IF via = {} THEN -1 ELSE Min(via)

\* The total traversal cost of the edges a result lists.
RECURSIVE ResultCost(_)
ResultCost(es) ==
    IF es = << >> THEN 0
    ELSE TraversalCost(Head(es).weight) + ResultCost(Tail(es))

\* C14: the path shortest_path returns has the least total traversal cost
\* among the directed paths from from to to, an edge costing
\* 1 / max(weight, 0.01); and the cost shortest_path gives an edge is
\* strictly lower for a higher weight.
C14_LeastTraversalCost ==
    /\ \A i, j \in 1..Len(graph.edges) :
           graph.edges[i].weight > graph.edges[j].weight =>
               edge_cost(graph.edges[i].weight)
                   < edge_cost(graph.edges[j].weight)
    /\ (PathReturned /\ query.ret.ok /\ query.ret.found) =>
           ResultCost(query.ret.edges) =
               LeastCost(graph.edges, query.from_id, query.to_id,
                         Len(graph.edges))

\* C15: shortest_path never returns an error; found = true exactly when
\* both ids exist and to is reachable from from along directed edges, from
\* = to counting as reachable with a path of that one node, no edges and
\* total_weight 0; otherwise found = false with an empty path.
C15_FoundIffReachable ==
    PathReturned =>
        /\ query.ret.ok
        /\ query.ret.found =
               (/\ query.from_id \in DOMAIN graph.nodes
                /\ query.to_id \in DOMAIN graph.nodes
                /\ \/ query.from_id = query.to_id
                   \/ query.from_id \in
                          AncestorsOf(Pairs(graph, AllRels(graph)),
                                      query.to_id))
        /\ (query.ret.found /\ query.from_id = query.to_id) =>
               /\ query.ret.path = <<graph.nodes[query.from_id]>>
               /\ query.ret.edges = << >>
               /\ query.ret.total_weight = 0
        /\ ~query.ret.found =>
               /\ query.ret.path = << >>
               /\ query.ret.edges = << >>

\* A path over three nodes was found.
C15_Witness ==
    /\ PathReturned /\ query.ret.ok
    /\ query.ret.found
    /\ Len(query.ret.path) = 3

\* ------------------------------------------------------------------------
\* Properties of neighborhood
\* ------------------------------------------------------------------------

\* A neighborhood call has returned a result.
NbrReturned ==
    query.op = "neighborhood" /\ query.pc = "returned" /\ query.ret.ok

\* The edges of the graph that pass the relationship filter of the call.
Passing ==
    {graph.edges[i] :
        i \in {j \in 1..Len(graph.edges) :
                  query.filter.some =>
                      graph.edges[j].relationship \in query.filter.val}}

\* The ids within k hops of id c when the passing edges are followed in
\* both directions.
RECURSIVE Within(_, _)
Within(c, k) ==
    IF k = 0 THEN {c}
    ELSE LET B == Within(c, k - 1)
         IN  B \cup {e.to : e \in {x \in Passing : x.from \in B}}
               \cup {e.from : e \in {x \in Passing : x.to \in B}}

\* The radius after the clamp.
Clamped == IF query.radius < 10 THEN query.radius ELSE 10

\* C16: neighborhood returns, each once and without the center, exactly
\* the nodes at a hop distance from 1 to min(radius, 10) over the edges
\* that pass the filter, followed in both directions; distances maps the
\* center to 0 and each returned node to its hop distance and has no other
\* key; radius 0 gives empty lists and distances = {center: 0}.
C16_NodesWithinRadius ==
    NbrReturned =>
        LET c == query.center_id
            ret == query.ret
        IN  /\ IdsOf(ret.nodes) = Within(c, Clamped) \ {c}
            /\ Cardinality(IdsOf(ret.nodes)) = Len(ret.nodes)
            /\ DOMAIN ret.distances = IdsOf(ret.nodes) \cup {c}
            /\ ret.distances[c] = 0
            /\ \A x \in IdsOf(ret.nodes) :
                   /\ ret.distances[x] \in 1..Clamped
                   /\ x \in Within(c, ret.distances[x])
                   /\ x \notin Within(c, ret.distances[x] - 1)
            /\ query.radius = 0 =>
                   /\ ret.nodes = << >>
                   /\ ret.edges = << >>
                   /\ ret.distances = MapInsert(EmptyMap, c, 0)

\* On the long chain a call with a radius above ten returned the ten
\* nearest nodes, the farthest at distance ten.
C16_Witness ==
    /\ NbrReturned
    /\ query.radius > 10
    /\ Len(query.ret.nodes) = 10
    /\ \E x \in IdsOf(query.ret.nodes) : query.ret.distances[x] = 10
    /\ node_count(graph) = MaxChain

\* C17: the edges neighborhood returns are the edges connecting the
\* returned nodes: every edge of the graph that passes the filter and has
\* both endpoints among the returned nodes and the center is in the
\* result's edges, and every returned edge has both endpoints there.
C17_EdgesAmongReturnedNodes ==
    NbrReturned =>
        LET S == IdsOf(query.ret.nodes) \cup {query.center_id}
            returned == {query.ret.edges[i] : i \in 1..Len(query.ret.edges)}
        IN  /\ \A e \in Passing :
                   (e.from \in S /\ e.to \in S) => e \in returned
            /\ \A e \in returned : e.from \in S /\ e.to \in S

\* C18: for every graph, center and filter a call with a radius above 10
\* returns what the call with radius 10 returns, no returned distance is
\* above 10, and every call that entered the search loop returns, on
\* graphs with cycles and self-loops too.
C18_RadiusClampAndTermination ==
    /\ [](NbrReturned =>
            /\ \A x \in DOMAIN query.ret.distances :
                   query.ret.distances[x] <= 10
            /\ query.radius > 10 =>
                   query.ret = neighborhood(graph, query.center_id, 10,
                                            query.filter))
    /\ (query.op = "neighborhood" /\ query.pc = "loop")
           ~> (query.op = "neighborhood" /\ query.pc = "returned")

\* On the chain closed into a cycle a call with radius 1000 returned the
\* ten nearest nodes, as the call with radius 10 does.
C18_Witness ==
    /\ NbrReturned
    /\ query.radius = 1000
    /\ edge_count(graph) = MaxChain
    /\ Cyclic(graph)
    /\ Len(query.ret.nodes) = 10
    /\ query.ret = neighborhood(graph, query.center_id, 10, query.filter)

\* ------------------------------------------------------------------------
\* Properties of calculate_centrality and find_bridges
\* ------------------------------------------------------------------------

\* C20: calculate_centrality and find_bridges are deterministic: two
\* evaluations on graphs built by the same add_node and add_edge calls
\* (with the same limit) return the same list in the same order, whatever
\* the iteration order of the id-to-Node table, ties on score included.
C20_DeterministicRanking ==
    query.op \in {"calculate_centrality", "find_bridges"} =>
        query.ret = query.again

\* ------------------------------------------------------------------------
\* Properties of GraphTools
\* ------------------------------------------------------------------------

\* A tool call holds its read guard.
Reading(t) == tasks[t].pc \in {"guarded", "scoring", "scored"}

\* An update_graph call holds the write guard.
Writing(u) == tasks[u].pc \in {"locked", "assigned"}

\* C19: tool calls and update_graph calls on one GraphTools are serialized
\* by the lock: several tool calls may read together, none holds its guard
\* while an update holds the lock, and every tool call evaluates against
\* one whole installed graph, never a mixture of two; a call started after
\* update_graph returned evaluates against the graph of that update or a
\* later one.
C19_OneWholeSnapshot ==
    /\ \A t \in QueryTasks, u \in UpdateTasks : ~(Reading(t) /\ Writing(u))
    /\ \A t \in QueryTasks :
           tasks[t].pc \in {"scored", "done"} =>
               /\ ~tasks[t].ret.panicked
               /\ \E v \in tasks[t].after..Len(installed) :
                      tasks[t].ret.top \in
                          {take_default(r) :
                              r \in calculate_centrality(installed[v])}

\* Two tool calls hold read guards together on the graph of a returned
\* update, one of them has its scores and was started after that update
\* returned, and the next update_graph call is waiting for the lock.
C19_Witness ==
    /\ lock.readers = QueryTasks
    /\ \E u \in UpdateTasks : tasks[u].pc = "called"
    /\ Len(installed) = 2
    /\ \E t \in QueryTasks :
           /\ tasks[t].pc = "scored"
           /\ tasks[t].after = 2
           /\ Len(tasks[t].ret.top) >= 2

\* The scores calculate_centrality returned.
CentralityReturned == query.op = "calculate_centrality"

\* The number of edges of the flat list that enter, and that leave, an id.
InEdges(id) ==
    Cardinality({i \in 1..Len(graph.edges) : graph.edges[i].to = id})

OutEdges(id) ==
    Cardinality({i \in 1..Len(graph.edges) : graph.edges[i].from = id})

\* C21: on every graph of at least 2 nodes, parallel edges and self-loops
\* included, every score calculate_centrality returns is normalized:
\* in_degree, out_degree and degree lie between 0 and 1.
C21_ScoresNormalized ==
    CentralityReturned =>
        \A i \in 1..Len(query.ret) :
            /\ query.ret[i].in_degree[1] <= query.ret[i].in_degree[2]
            /\ query.ret[i].out_degree[1] <= query.ret[i].out_degree[2]
            /\ query.ret[i].degree[1] <= query.ret[i].degree[2]

\* C22: calculate_centrality returns the empty list for a graph of 0 or 1
\* nodes; for n >= 2 it returns one score per node, with in_degree =
\* in-edges / (n - 1), out_degree = out-edges / (n - 1) and degree =
\* (in-edges + out-edges) / (2 (n - 1)), in non-increasing order of degree.
C22_OneScorePerNode ==
    CentralityReturned =>
        LET n == Cardinality(DOMAIN graph.nodes)
            ret == query.ret
        IN  IF n < 2 THEN ret = << >>
            ELSE /\ Len(ret) = n
                 /\ {ret[i].node_id : i \in 1..n} = DOMAIN graph.nodes
                 /\ \A i \in 1..n :
                        /\ ret[i].in_degree
                               = <<InEdges(ret[i].node_id), n - 1>>
                        /\ ret[i].out_degree
                               = <<OutEdges(ret[i].node_id), n - 1>>
                        /\ ret[i].degree
                               = <<InEdges(ret[i].node_id)
                                     + OutEdges(ret[i].node_id), 2 * (n - 1)>>
                 /\ \A i \in 1..(n - 1) :
                        ret[i].degree[1] >= ret[i + 1].degree[1]

\* The hub of a hub-and-leaves graph, added last, is listed first.
C22_Witness ==
    /\ CentralityReturned
    /\ Len(query.ret) = 3
    /\ query.ret[1].node_id = "c"
    /\ query.ret[1].degree[1] = 2
    /\ query.ret[2].degree[1] = 1
    /\ query.ret[3].degree[1] = 1

\* The nodes find_bridges returned.
BridgesReturned == query.op = "find_bridges"

\* The bridge score of an id, from the flat edge list and the node table:
\* (min(in-edges, out-edges) + 1) * (c + 1), with c the number of distinct
\* categories among the neighbors of the node, the nodes its outgoing edges
\* lead to.
BridgeScoreOf(id) ==
    LET least == IF InEdges(id) < OutEdges(id) THEN InEdges(id)
                 ELSE OutEdges(id)
        nbrs == {graph.edges[i].to :
                    i \in {j \in 1..Len(graph.edges) :
                              graph.edges[j].from = id}}
        cats == {graph.nodes[x].category.val :
                    x \in {y \in nbrs : graph.nodes[y].category.some}}
    IN  (least + 1) * (Cardinality(cats) + 1)

\* C23: find_bridges(graph, limit) returns min(limit, node_count) distinct
\* nodes of the graph in non-increasing order of score, and no omitted node
\* scores higher than a returned one.
C23_TopBridges ==
    BridgesReturned =>
        LET ret == query.ret
            n == Cardinality(DOMAIN graph.nodes)
            k == IF query.limit < n THEN query.limit ELSE n
        IN  /\ Len(ret) = k
            /\ Cardinality(IdsOf(ret)) = k
            /\ \A i \in 1..k : /\ ret[i].id \in DOMAIN graph.nodes
                               /\ ret[i] = graph.nodes[ret[i].id]
            /\ \A i \in 1..(k - 1) :
                   BridgeScoreOf(ret[i].id) >= BridgeScoreOf(ret[i + 1].id)
            /\ \A x \in DOMAIN graph.nodes \ IdsOf(ret) :
                   \A i \in 1..k :
                       BridgeScoreOf(x) <= BridgeScoreOf(ret[i].id)

\* find_bridges with limit 1 returned the one node whose two neighbors are
\* in two categories, out of three nodes.
C23_Witness ==
    /\ BridgesReturned
    /\ query.limit = 1
    /\ Len(query.ret) = 1
    /\ node_count(graph) = 3
    /\ BridgeScoreOf(query.ret[1].id) = 3

\* A lookup by node id has returned.
LookupReturned ==
    /\ query.op \in {"neighborhood", "prerequisites_sorted", "get_related",
                     "prerequisites", "dependents", "related_by"}
    /\ query.op = "neighborhood" => query.pc = "returned"

\* The id a lookup was called with.
LookupId ==
    IF query.op = "neighborhood" THEN query.center_id
    ELSE IF query.op = "prerequisites_sorted" THEN query.target_id
    ELSE query.node_id

\* The number of edges of the flat edge list from x to y with a
\* relationship in rels.
EdgesBetween(x, y, rels) ==
    Cardinality({i \in 1..Len(graph.edges) :
                    /\ graph.edges[i].from = x
                    /\ graph.edges[i].to = y
                    /\ graph.edges[i].relationship \in rels})

\* The list ns holds the node of each id x exactly Times(x) times and
\* nothing else.
ListsEach(ns, Times(_)) ==
    /\ \A i \in 1..Len(ns) : /\ ns[i].id \in DOMAIN graph.nodes
                             /\ ns[i] = graph.nodes[ns[i].id]
    /\ \A x \in DOMAIN graph.nodes :
           Cardinality({i \in 1..Len(ns) : ns[i].id = x}) = Times(x)

C28_DirectWithinTransitive ==
    (query.op = "prerequisites" /\ query.ret.ok) =>
        \A r \in prerequisites_sorted(graph, query.node_id) :
            /\ r.ok
            /\ IdsOf(query.ret.val) \subseteq IdsOf(r.ordered)

\* C29: prerequisites_sorted(target).ordered never contains the target node
\* itself and never the same node twice, also when Prerequisite edges form
\* a cycle through the target.
C29_TargetNotOwnPrerequisite ==
    PrereqReturned =>
        /\ query.ret.target.id \notin IdsOf(query.ret.ordered)
        /\ Cardinality(IdsOf(query.ret.ordered)) = Len(query.ret.ordered)

\* The sum of the weights of the edges es.
RECURSIVE WeightSum(_)
WeightSum(es) ==
    IF es = << >> THEN 0 ELSE Head(es).weight + WeightSum(Tail(es))

\* C30: when shortest_path returns found = true, path starts at from_id and
\* ends at to_id without repeating a node, edges has path.len() - 1 entries
\* with edges[i] running from path[i] to path[i+1], total_weight is the sum
\* of the weights of those edges, and among parallel edges from path[i] to
\* path[i+1] the reported edge is one of least traversal cost.
C30_PathWellFormed ==
    (PathReturned /\ query.ret.ok /\ query.ret.found) =>
        LET path == query.ret.path
            edges == query.ret.edges
        IN  /\ Len(path) >= 1
            /\ path[1].id = query.from_id
            /\ path[Len(path)].id = query.to_id
            /\ Cardinality(IdsOf(path)) = Len(path)
            /\ Len(edges) = Len(path) - 1
            /\ \A i \in 1..Len(edges) :
                   /\ edges[i].from = path[i].id
                   /\ edges[i].to = path[i + 1].id
                   /\ \A j \in 1..Len(graph.edges) :
                          (/\ graph.edges[j].from = path[i].id
                           /\ graph.edges[j].to = path[i + 1].id) =>
                              TraversalCost(edges[i].weight)
                                  <= TraversalCost(graph.edges[j].weight)
            /\ query.ret.total_weight = WeightSum(edges)

\* C25: in every state reached by add_node, add_edge and remove_node calls
\* the id-to-index map and the id-to-Node map have the same keys, node_count
\* is the number of keys, distinct ids have distinct indices, and the graph
\* node stored at get_index(id) has the id, also for a node that an earlier
\* removal moved.
C25_IndexMapsAgree ==
    /\ DOMAIN graph.node_indices = DOMAIN graph.nodes
    /\ node_count(graph) = Cardinality(DOMAIN graph.node_indices)
    /\ \A x, y \in DOMAIN graph.node_indices :
           x # y => get_index(graph, x).val # get_index(graph, y).val
    /\ \A id \in DOMAIN graph.node_indices :
           /\ get_index(graph, id).val \in 1..Len(graph.graph.nodes)
           /\ graph.graph.nodes[get_index(graph, id).val].id = id

\* remove_node took the first of three nodes out, the last node was moved
\* into its place and the second kept its own.
C25_Witness ==
    /\ call.op = "remove_node" /\ call.ok
    /\ call.ret.id = "a"
    /\ DOMAIN graph.node_indices = {"b", "c"}
    /\ get_index(graph, "c").val = 1
    /\ get_index(graph, "b").val = 2

\* C26: whenever build() returns from_cache = true, the graph it returns
\* has the nodes and edges that a full rebuild over the current content
\* directory and the current manual-edges file produces; a change of the
\* manual-edges file between two builds shows in the second build.
C26_CacheEqualsRebuild ==
    [][(BuildReturns /\ result'.status = "Ok" /\ stats'.from_cache) =>
           LET full == build(skip_cache(cfg), dir, manual_edges, cache)
           IN  /\ graph'.nodes = full.graph.nodes
               /\ graph'.edges = full.graph.edges]_vars

\* C27: after every successful build() stats.nodes_created is
\* graph.node_count() and stats.edges_created + stats.manual_edges_loaded is
\* graph.edge_count(), also when two content files yield the same node id.
C27_StatsMatchGraph ==
    (pc = "done" /\ result.status = "Ok") =>
        /\ stats.nodes_created = node_count(graph)
        /\ stats.edges_created + stats.manual_edges_loaded
               = edge_count(graph)

====
